---- MODULE Spec2Model ----
(***************************************************************************)
(* The hand-rolled WebSocket engine of keti-code.js (class SimpleWebSocket) *)
(* as a state machine: the constructor's handshake, the 'data' and 'close'  *)
(* listeners, parseFrame, send and close, driven by a client that puts      *)
(* masked frames on the wire and a transport that cuts the byte stream into *)
(* 'data' events at arbitrary places.                                       *)
(***************************************************************************)
EXTENDS Integers, Sequences, FiniteSets, TLC

\* ---------------------------------------------------------------- bounds
\* connections the server can accept
NumConns == 2
\* bytes the clients put on the wire, over all connections
MaxStream == 13
\* send() calls made by the application, over all connections
MaxSends == 1
\* close() calls made by the application, over all connections
MaxCloses == 2
\* code points in a text the codec operations are applied to
MaxText == 2
\* the terminals created (their ids count from 0)
NumTerminals == 2
\* Terminal.broadcast calls
MaxBroadcasts == 1
\* 'data' events of the unified server, over all its sockets
MaxMessages == 2
\* chunks of output a command prints
MaxOutput == 1
\* state tokens issued, and device flows initiated
MaxIssued == 2
\* times the clock of the auth server is advanced
MaxTicks == 3
\* calls made on the auth server
MaxCalls == 4

Conn == 1..NumConns

\* the connection that Spec follows through every cut of its byte stream
Deep == {1}

\* ----------------------------------------------------------- byte helpers
Min(a, b) == IF a < b THEN a ELSE b

\* JavaScript's ^ on two bytes
RECURSIVE Xor(_, _)
Xor(a, b) ==
    IF a = 0 THEN b
    ELSE IF b = 0 THEN a
    ELSE (((a % 2) + (b % 2)) % 2) + 2 * Xor(a \div 2, b \div 2)

\* Buffer.prototype.slice(start, end): 0-based, end exclusive, clamped
Slice(buffer, start, end) == SubSeq(buffer, start + 1, Min(end, Len(buffer)))

\* lead byte of a UTF-8 sequence: how many continuation bytes follow
Utf8Need(b) ==
    IF b >= 194 /\ b <= 223 THEN 1
    ELSE IF b >= 224 /\ b <= 239 THEN 2
    ELSE IF b >= 240 /\ b <= 244 THEN 3
    ELSE 0

\* bounds of the first continuation byte after lead byte b
Utf8Lower(b) == IF b = 224 THEN 160 ELSE IF b = 240 THEN 144 ELSE 128
Utf8Upper(b) == IF b = 237 THEN 159 ELSE IF b = 244 THEN 143 ELSE 191

\* how many of the (at most need) bytes after the lead byte continue it
RECURSIVE Utf8Cont(_, _, _)
Utf8Cont(bytes, j, need) ==
    IF j > need \/ j + 1 > Len(bytes) THEN j - 1
    ELSE LET lo == IF j = 1 THEN Utf8Lower(bytes[1]) ELSE 128
             hi == IF j = 1 THEN Utf8Upper(bytes[1]) ELSE 191
         IN IF bytes[j + 1] >= lo /\ bytes[j + 1] <= hi
            THEN Utf8Cont(bytes, j + 1, need)
            ELSE j - 1

RECURSIVE Utf8Value(_, _, _)
Utf8Value(bytes, j, acc) ==
    IF j > Len(bytes) THEN acc
    ELSE Utf8Value(bytes, j + 1, (acc * 64) + (bytes[j] - 128))

\* where a long input is cut in two for decoding: before the first byte after
\* the middle that is no continuation byte (the decoder starts afresh on it),
\* or after three continuation bytes (no sequence has a fourth)
Utf8Cut(bytes) ==
    LET mid == Len(bytes) \div 2
        fresh == { p \in (mid + 1)..(mid + 3) : bytes[p] < 128 \/ bytes[p] > 191 }
    IN IF fresh = {} THEN mid + 4
       ELSE CHOOSE p \in fresh : \A q \in fresh : p <= q

\* Buffer.prototype.toString('utf8'): bytes to code points, U+FFFD (65533)
\* for every maximal ill-formed subsequence
RECURSIVE Utf8Decode(_)
Utf8Decode(bytes) ==
    IF bytes = <<>> THEN <<>>
    ELSE IF Len(bytes) > 8
    THEN LET p == Utf8Cut(bytes)
         IN Utf8Decode(SubSeq(bytes, 1, p - 1))
            \o Utf8Decode(SubSeq(bytes, p, Len(bytes)))
    ELSE LET b == bytes[1]
             need == Utf8Need(b)
             got == Utf8Cont(bytes, 1, need)
             lead == IF need = 1 THEN b - 192
                     ELSE IF need = 2 THEN b - 224 ELSE b - 240
         IN IF b < 128 THEN <<b>> \o Utf8Decode(Tail(bytes))
            ELSE IF need = 0 THEN <<65533>> \o Utf8Decode(Tail(bytes))
            ELSE IF got = need
                 THEN <<Utf8Value(SubSeq(bytes, 2, need + 1), 1, lead)>>
                      \o Utf8Decode(SubSeq(bytes, need + 2, Len(bytes)))
                 ELSE <<65533>> \o Utf8Decode(SubSeq(bytes, got + 2, Len(bytes)))

\* the UTF-8 bytes of one code point; a lone surrogate becomes U+FFFD
Utf8Bytes(c) ==
    IF c < 128 THEN <<c>>
    ELSE IF c < 2048 THEN <<192 + (c \div 64), 128 + (c % 64)>>
    ELSE IF c >= 55296 /\ c <= 57343 THEN <<239, 191, 189>>
    ELSE IF c < 65536
         THEN <<224 + (c \div 4096), 128 + ((c \div 64) % 64), 128 + (c % 64)>>
         ELSE <<240 + (c \div 262144), 128 + ((c \div 4096) % 64),
                128 + ((c \div 64) % 64), 128 + (c % 64)>>

\* Buffer.from(data, 'utf8'): code points to bytes
RECURSIVE Utf8Encode(_)
Utf8Encode(str) ==
    IF str = <<>> THEN <<>>
    ELSE IF Len(str) = 1 THEN Utf8Bytes(str[1])
    ELSE LET m == Len(str) \div 2
         IN Utf8Encode(SubSeq(str, 1, m)) \o Utf8Encode(SubSeq(str, m + 1, Len(str)))

\* -------------------------------------------------- strings, SHA-1, base64
\* A JavaScript value that is a string (its code points) or undefined
JsString(chars) == [type |-> "string", chars |-> chars]
JsUndefined == [type |-> "undefined", chars |-> <<>>]

\* "undefined"
UndefinedText == <<117, 110, 100, 101, 102, 105, 110, 101, 100>>

\* value + string: the + operator turns undefined into the text "undefined"
JsConcat(value, chars) ==
    (IF value.type = "undefined" THEN UndefinedText ELSE value.chars) \o chars

\* string + value
JsConcatFlipped(value, chars) ==
    chars \o (IF value.type = "undefined" THEN UndefinedText ELSE value.chars)

\* a & b on 16 bits: bit k of the result is bit k of a times bit k of b
And16(a, b) ==
    LET T(k) == (2 ^ k) * (((a \div (2 ^ k)) % 2) * ((b \div (2 ^ k)) % 2))
    IN (((T(0) + T(1)) + (T(2) + T(3))) + ((T(4) + T(5)) + (T(6) + T(7))))
       + (((T(8) + T(9)) + (T(10) + T(11))) + ((T(12) + T(13)) + (T(14) + T(15))))

\* a ^ b and a | b on 16 bits
Xor16(a, b) == (a + b) - (2 * And16(a, b))
Or16(a, b) == (a + b) - And16(a, b)

\* a 32-bit word is <<high 16 bits, low 16 bits>>
Add32(x, y) ==
    LET lo == x[2] + y[2]
        hi == x[1] + y[1] + (lo \div 65536)
    IN <<hi % 65536, lo % 65536>>

\* the sum of five words, modulo 2^32
Add32Five(ws) ==
    LET lo == ((ws[1][2] + ws[2][2]) + (ws[3][2] + ws[4][2])) + ws[5][2]
        hi == (((ws[1][1] + ws[2][1]) + (ws[3][1] + ws[4][1])) + ws[5][1])
              + (lo \div 65536)
    IN <<hi % 65536, lo % 65536>>
Xor32(x, y) == <<Xor16(x[1], y[1]), Xor16(x[2], y[2])>>
And32(x, y) == <<And16(x[1], y[1]), And16(x[2], y[2])>>
Or32(x, y) == <<Or16(x[1], y[1]), Or16(x[2], y[2])>>
Not32(x) == <<65535 - x[1], 65535 - x[2]>>

\* rotate left by n bits, 0 < n < 32
Rotl32(x, n) ==
    LET y == IF n < 16 THEN x ELSE <<x[2], x[1]>>
        m == IF n < 16 THEN n ELSE n - 16
        p == 2 ^ m
        q == 2 ^ (16 - m)
    IN IF m = 0 THEN y
       ELSE <<((y[1] * p) % 65536) + (y[2] \div q),
              ((y[2] * p) % 65536) + (y[1] \div q)>>

\* FIPS 180-4 5.1.1: the message, 0x80, zeros up to 56 mod 64, the bit length
\* in 8 bytes
Sha1Pad(bytes) ==
    LET zeros == (119 - (Len(bytes) % 64)) % 64
        bits == Len(bytes) * 8
    IN bytes \o <<128>> \o [i \in 1..zeros |-> 0] \o <<0, 0, 0, 0>>
       \o <<(bits \div 16777216) % 256, (bits \div 65536) % 256,
            (bits \div 256) % 256, bits % 256>>

\* the 16 words of block k (from 0) of a padded message
Sha1Block(padded, k) ==
    [i \in 1..16 |->
        LET o == (64 * k) + (4 * (i - 1))
        IN <<(padded[o + 1] * 256) + padded[o + 2],
             (padded[o + 3] * 256) + padded[o + 4]>>]

\* the message schedule, one word more: w[t] from w[t-3], w[t-8], w[t-14] and
\* w[t-16], rotated left by one
Sha1Word(w) ==
    LET t == Len(w) + 1
    IN Append(w, Rotl32(Xor32(Xor32(w[t - 3], w[t - 8]),
                              Xor32(w[t - 14], w[t - 16])), 1))

\* the message schedule: the words w (16 or more) extended to n words, the
\* first half of the missing words and then, from that result, the rest
RECURSIVE Sha1Schedule(_, _)
Sha1Schedule(w, n) ==
    IF Len(w) >= n THEN w
    ELSE IF Len(w) + 1 = n THEN Sha1Word(w)
    ELSE CHOOSE words \in {Sha1Schedule(half, n) :
                             half \in {Sha1Schedule(w, (Len(w) + n) \div 2)}} :
             TRUE

\* round t (from 0): its function of b, c, d and its constant
Sha1F(t, b, c, d) ==
    IF t < 20 THEN Or32(And32(b, c), And32(Not32(b), d))
    ELSE IF t < 40 THEN Xor32(Xor32(b, c), d)
    ELSE IF t < 60 THEN Or32(Or32(And32(b, c), And32(b, d)), And32(c, d))
    ELSE Xor32(Xor32(b, c), d)
Sha1K(t) ==
    IF t < 20 THEN <<23170, 31129>>
    ELSE IF t < 40 THEN <<28377, 60321>>
    ELSE IF t < 60 THEN <<36635, 48348>>
    ELSE <<51810, 49622>>

\* round t (from 0) on the working variables v = <<a, b, c, d, e>>
Sha1Round(v, w, t) ==
    IF Len(v) # 5 THEN v
    ELSE <<Add32Five(<<Rotl32(v[1], 5), Sha1F(t, v[2], v[3], v[4]), v[5],
                       Sha1K(t), w[t + 1]>>),
           v[1], Rotl32(v[2], 30), v[3], v[4]>>

\* rounds lo..hi on the five working variables v with the 80 words w: the
\* first half of the rounds and then, from that result, the rest
RECURSIVE Sha1Rounds(_, _, _, _)
Sha1Rounds(v, w, lo, hi) ==
    IF Len(w) # 80 \/ Len(v) # 5 \/ lo > hi THEN v
    ELSE IF lo = hi THEN Sha1Round(v, w, lo)
    ELSE CHOOSE last \in {Sha1Rounds(half, w, ((lo + hi) \div 2) + 1, hi) :
                            half \in {Sha1Rounds(v, w, lo, (lo + hi) \div 2)}} :
             TRUE

\* the hash value h after a block whose eighty rounds ended in v
Sha1Add(h, v) ==
    <<Add32(h[1], v[1]), Add32(h[2], v[2]), Add32(h[3], v[3]),
      Add32(h[4], v[4]), Add32(h[5], v[5])>>

\* the hash value after blocks k.. of the padded message, from hash value h
RECURSIVE Sha1Blocks(_, _, _)
Sha1Blocks(h, padded, k) ==
    IF Len(h) # 5 \/ 64 * k >= Len(padded) THEN h
    ELSE Sha1Blocks(Sha1Add(h, Sha1Rounds(h, Sha1Schedule(Sha1Block(padded, k),
                                                          80), 0, 79)),
                    padded, k + 1)

\* the 20 bytes of the hash value h, most significant byte of each word first
Sha1Digest(h) ==
    [i \in 1..20 |->
       LET word == h[((i - 1) \div 4) + 1]
           half == IF ((i - 1) % 4) < 2 THEN word[1] ELSE word[2]
       IN IF (i % 2) = 1 THEN half \div 256 ELSE half % 256]

\* crypto.createHash('sha1').update(bytes).digest(): 20 bytes
Sha1(bytes) ==
    Sha1Digest(Sha1Blocks(<<<<26437, 8961>>, <<61389, 43913>>,
                            <<39098, 56574>>, <<4146, 21622>>,
                            <<50130, 57840>>>>,
                          Sha1Pad(bytes), 0))

\* the base64 alphabet: A-Z a-z 0-9 + /
Base64Char(n) ==
    IF n < 26 THEN 65 + n
    ELSE IF n < 52 THEN 97 + (n - 26)
    ELSE IF n < 62 THEN 48 + (n - 52)
    ELSE IF n = 62 THEN 43 ELSE 47

\* digest('base64'): 3 bytes to 4 characters, '=' (61) padding at the end
RECURSIVE Base64(_)
Base64(bytes) ==
    IF bytes = <<>> THEN <<>>
    ELSE LET b1 == bytes[1]
             b2 == IF Len(bytes) >= 2 THEN bytes[2] ELSE 0
             b3 == IF Len(bytes) >= 3 THEN bytes[3] ELSE 0
         IN <<Base64Char(b1 \div 4),
              Base64Char(((b1 % 4) * 16) + (b2 \div 16)),
              IF Len(bytes) >= 2 THEN Base64Char(((b2 % 16) * 4) + (b3 \div 64)) ELSE 61,
              IF Len(bytes) >= 3 THEN Base64Char(b3 % 64) ELSE 61>>
            \o Base64(SubSeq(bytes, 4, Len(bytes)))

\* --------------------------------------------------------- SimpleWebSocket
\* const magic = '258EAFA5-E914-47DA-95CA-C5AB0DC85B11' (keti-code.js)
magic ==
    <<50, 53, 56, 69, 65, 70, 65, 53, 45, 69, 57, 49, 52, 45, 52, 55, 68, 65, 45, 57,
      53, 67, 65, 45, 67, 53, 65, 66, 48, 68, 67, 56, 53, 66, 49, 49>>

\* const GUID = '258EAFA5-E914-47DA-95CA-C5AB0DC85B11' (keti-unified.js)
GUID ==
    <<50, 53, 56, 69, 65, 70, 65, 53, 45, 69, 57, 49, 52, 45, 52, 55, 68, 65, 45, 57,
      53, 67, 65, 45, 67, 53, 65, 66, 48, 68, 67, 56, 53, 66, 49, 49>>

\* the literal '258EAFA5-E914-47DA-95CA-C5AB0DC85B11' in handleWebSocket of
\* zero-code.js
zeroCodeGuid ==
    <<50, 53, 56, 69, 65, 70, 65, 53, 45, 69, 57, 49, 52, 45, 52, 55, 68, 65, 45, 57,
      53, 67, 65, 45, 67, 53, 65, 66, 48, 68, 67, 56, 53, 66, 49, 49>>

\* generateAcceptKey with magic + key
generateAcceptKeyFlipped(key) ==
    Base64(Sha1(Utf8Encode(JsConcatFlipped(key, magic))))

\* SimpleWebSocket.generateAcceptKey(key):
\* createHash('sha1').update(key + magic).digest('base64')
generateAcceptKey(key) == Base64(Sha1(Utf8Encode(JsConcat(key, magic))))

\* KetiUnifiedServer.generateAcceptKey(key)
generateAcceptKeyUnified(key) == Base64(Sha1(Utf8Encode(JsConcat(key, GUID))))

\* acceptKey in handleWebSocket of zero-code.js
zeroCodeAcceptKey(key) == Base64(Sha1(Utf8Encode(JsConcat(key, zeroCodeGuid))))

\* 'HTTP/1.1 101 Switching Protocols\r\n' + 'Upgrade: websocket\r\n' +
\* 'Connection: Upgrade\r\n' + 'Sec-WebSocket-Accept: '
ResponseHead ==
    <<72, 84, 84, 80, 47, 49, 46, 49, 32, 49, 48, 49, 32, 83, 119, 105, 116,
      99, 104, 105, 110, 103, 32, 80, 114, 111, 116, 111, 99, 111, 108, 115,
      13, 10, 85, 112, 103, 114, 97, 100, 101, 58, 32, 119, 101, 98, 115,
      111, 99, 107, 101, 116, 13, 10, 67, 111, 110, 110, 101, 99, 116, 105,
      111, 110, 58, 32, 85, 112, 103, 114, 97, 100, 101, 13, 10, 83, 101,
      99, 45, 87, 101, 98, 83, 111, 99, 107, 101, 116, 45, 65, 99, 99, 101,
      112, 116, 58, 32>>

\* what the constructor writes first: the 101 response, whose text ends
\* `${acceptKey}\r\n` + '\r\n'
HandshakeResponse(acceptKey) ==
    [kind |-> "handshake",
     bytes |-> Utf8Encode(ResponseHead \o acceptKey \o <<13, 10, 13, 10>>)]

\* a write of frame bytes to the socket
FrameWrite(bytes) == [kind |-> "frame", bytes |-> bytes]

\* Buffer.from([0x88, 0x00])
closeFrame == <<136, 0>>

\* before `new SimpleWebSocket(request, socket)`: no object yet
NoSocket == [state |-> "NONE", written |-> <<>>, ended |-> 0]

\* construct with the state field initialised to 'OPEN'
constructOpen == [state |-> "OPEN", written |-> <<>>, ended |-> 0]

\* the constructor up to `this.state = 'CONNECTING'`: nothing written yet
construct == [state |-> "CONNECTING", written |-> <<>>, ended |-> 0]

\* the rest of the constructor with `this.state = 'OPEN'` before a
\* handshake write that is still to come
handshakeUnwritten(w, key) == [w EXCEPT !.state = "OPEN"]

\* the rest of the constructor, key being request.headers['sec-websocket-key']:
\* the handshake write, then `this.state = 'OPEN'` (the listeners are
\* registered right after, in the same synchronous run)
handshake(w, key) ==
    [w EXCEPT !.written = Append(@, HandshakeResponse(generateAcceptKey(key))),
              !.state = "OPEN"]

\* maskKey[0] for every index
MaskByteFirst(maskKey, i) == IF Len(maskKey) >= 1 THEN maskKey[1] ELSE 0

\* maskKey[i % 4]; an index past a short key reads undefined, and x ^ undefined
\* is x
MaskByte(maskKey, i) ==
    IF (i % 4) + 1 <= Len(maskKey) THEN maskKey[(i % 4) + 1] ELSE 0

\* Unmask with the XOR loop left out
UnmaskNone(payload, maskKey) == payload

\* the unmasking loop: payload[i] ^= maskKey[i % 4]
Unmask(payload, maskKey) ==
    [i \in 1..Len(payload) |-> Xor(payload[i], MaskByte(maskKey, i - 1))]

\* the dispatch at the end of parseFrame
Dispatch(opcode, payload) ==
    IF opcode = 1 THEN [kind |-> "text", message |-> Utf8Decode(payload)]
    ELSE IF opcode = 8 THEN [kind |-> "close", message |-> <<>>]
    ELSE [kind |-> "ignore", message |-> <<>>]

\* parseFrame's locals, as functions of the buffer of one 'data' event (of at
\* least 2 bytes): opcode, masked, and the 7-bit length field of the 2nd byte
frameOpcode(buffer) == buffer[1] % 16
frameMasked(buffer) == buffer[2] >= 128
frameLen7(buffer) == buffer[2] % 128

\* readUInt16BE / readUInt32BE would read past the end of the buffer
frameReadThrows(buffer) ==
    \/ (frameLen7(buffer) = 126 /\ Len(buffer) < 4)
    \/ (frameLen7(buffer) = 127 /\ Len(buffer) < 10)

\* payloadLength after the length branches: readUInt16BE(2), or, for 127,
\* readUInt32BE(6): the four bytes after the four that are skipped
framePayloadLength(buffer) ==
    IF frameLen7(buffer) = 126 THEN (buffer[3] * 256) + buffer[4]
    ELSE IF frameLen7(buffer) = 127
         THEN (buffer[7] * 16777216) + (buffer[8] * 65536)
              + (buffer[9] * 256) + buffer[10]
         ELSE frameLen7(buffer)

\* offset after the length branches
frameLengthEnd(buffer) ==
    IF frameLen7(buffer) = 126 THEN 4 ELSE IF frameLen7(buffer) = 127 THEN 10 ELSE 2

frameMaskKey(buffer) ==
    IF frameMasked(buffer)
    THEN Slice(buffer, frameLengthEnd(buffer), frameLengthEnd(buffer) + 4)
    ELSE <<>>

\* offset after the mask key: where the payload is sliced from
framePayloadOffset(buffer) ==
    IF frameMasked(buffer) THEN frameLengthEnd(buffer) + 4 ELSE frameLengthEnd(buffer)

\* payload after the unmasking loop
framePayload(buffer) ==
    LET raw == Slice(buffer, framePayloadOffset(buffer),
                     framePayloadOffset(buffer) + framePayloadLength(buffer))
    IN IF frameMasked(buffer) THEN Unmask(raw, frameMaskKey(buffer)) ELSE raw

\* parseFrame(buffer): what one call does with the bytes of one 'data' event.
\* "return" is the early return, "throw" the RangeError of readUInt16BE /
\* readUInt32BE past the end of the buffer.
parseFrame(buffer) ==
    IF Len(buffer) < 2 THEN [kind |-> "return", message |-> <<>>]
    ELSE IF frameReadThrows(buffer) THEN [kind |-> "throw", message |-> <<>>]
    ELSE Dispatch(frameOpcode(buffer), framePayload(buffer))

\* KetiUnifiedServer.parseWebSocketFrame(buffer): the same length, mask and
\* slice code; it returns payload.toString() whatever the opcode ("null" is
\* the early return, "throw" the RangeError)
parseWebSocketFrame(buffer) ==
    IF Len(buffer) < 2 THEN [kind |-> "null", payload |-> <<>>, message |-> <<>>]
    ELSE LET secondByte == buffer[2]
             masked == secondByte >= 128
             len7 == secondByte % 128
             throws == \/ (len7 = 126 /\ Len(buffer) < 4)
                       \/ (len7 = 127 /\ Len(buffer) < 10)
             payloadLength ==
                 IF len7 = 126 THEN (buffer[3] * 256) + buffer[4]
                 ELSE IF len7 = 127
                      THEN (buffer[7] * 16777216) + (buffer[8] * 65536)
                           + (buffer[9] * 256) + buffer[10]
                      ELSE len7
             lenEnd == IF len7 = 126 THEN 4 ELSE IF len7 = 127 THEN 10 ELSE 2
             maskKey == IF masked THEN Slice(buffer, lenEnd, lenEnd + 4) ELSE <<>>
             offset == IF masked THEN lenEnd + 4 ELSE lenEnd
             raw == Slice(buffer, offset, offset + payloadLength)
             payload == IF masked THEN Unmask(raw, maskKey) ELSE raw
         IN IF throws THEN [kind |-> "throw", payload |-> <<>>, message |-> <<>>]
            ELSE [kind |-> "string", payload |-> payload,
                  message |-> Utf8Decode(payload)]

\* SendHeader with the 7-bit form kept up to 126
SendHeaderOff(length) ==
    IF length < 127 THEN <<129, length>>
    ELSE IF length < 65536 THEN <<129, 126, length \div 256, length % 256>>
    ELSE <<129, 127, 0, 0, 0, 0, (length \div 16777216) % 256,
           (length \div 65536) % 256, (length \div 256) % 256, length % 256>>

\* the header send() builds for a payload of `length` bytes
SendHeader(length) ==
    IF length < 126 THEN <<129, length>>
    ELSE IF length < 65536 THEN <<129, 126, length \div 256, length % 256>>
    ELSE <<129, 127, 0, 0, 0, 0, (length \div 16777216) % 256,
           (length \div 65536) % 256, (length \div 256) % 256, length % 256>>

\* send with header and payload in two writes
sendTwoWrites(w, data) ==
    IF w.state # "OPEN" THEN w
    ELSE LET message == Utf8Encode(data)
         IN [w EXCEPT !.written =
                Append(Append(@, FrameWrite(SendHeader(Len(message)))),
                       FrameWrite(message))]

\* send without its `state !== 'OPEN'` guard
sendNoGuard(w, data) ==
    [w EXCEPT !.written =
        Append(@, FrameWrite(SendHeader(Len(Utf8Encode(data))) \o Utf8Encode(data)))]

\* send(data) on the connection w: [state, written, ended]
send(w, data) ==
    IF w.state # "OPEN" THEN w
    ELSE LET message == Utf8Encode(data)
         IN [w EXCEPT !.written =
                Append(@, FrameWrite(SendHeader(Len(message)) \o message))]

\* JSON.stringify of a string none of whose characters needs an escape
JsonString(data) == <<34>> \o data \o <<34>>

\* KetiUnifiedServer.sendWebSocketMessage(socket, data), for a string data:
\* `written` is what was written to the socket so far
sendWebSocketMessage(written, data) ==
    LET message == Utf8Encode(JsonString(data))
        length == Len(message)
        frame == IF length < 126 THEN <<129, length>>
                 ELSE IF length < 65536
                      THEN <<129, 126, length \div 256, length % 256>>
                      ELSE <<129, 127, 0, 0, 0, 0,
                             (length \div 16777216) % 256, (length \div 65536) % 256,
                             (length \div 256) % 256, length % 256>>
    IN Append(written, FrameWrite(frame \o message))

\* close without its `state === 'CLOSED'` guard
closeNoGuard(w) ==
    [w EXCEPT !.state = "CLOSED",
              !.written = Append(@, FrameWrite(closeFrame)),
              !.ended = @ + 1]

\* close without its socket.end()
closeNoEnd(w) ==
    IF w.state = "CLOSED" THEN w
    ELSE [w EXCEPT !.state = "CLOSED",
                   !.written = Append(@, FrameWrite(closeFrame))]

\* close() on the connection w
close(w) ==
    IF w.state = "CLOSED" THEN w
    ELSE [w EXCEPT !.state = "CLOSED",
                   !.written = Append(@, FrameWrite(closeFrame)),
                   !.ended = @ + 1]

\* onMessage with the calls handed on last-in first-out
onMessageLifo(log, call) == <<call>> \o log

\* onMessage(message), as the engine's owner sees it: the calls in order, each
\* with its message and the stream offset of the buffer it was decoded from
onMessage(log, call) == Append(log, call)

\* the socket 'close' listener of the constructor
onSocketClose(w) == [w EXCEPT !.state = "CLOSED"]

\* ------------------------------------------------------------- the client
\* mask keys a client uses: the all-zero key, the key of RFC 6455's example
KeyZero == <<0, 0, 0, 0>>
KeySample == <<55, 250, 33, 61>>
\* a key whose first byte reads as the length code 126 when a cut makes it the
\* second byte of a buffer
KeyLenCode == <<126, 0, 0, 0>>

\* a client's masking of its payload
ClientMask(payload, key) ==
    [i \in 1..Len(payload) |-> Xor(payload[i], key[((i - 1) % 4) + 1])]

\* the bytes of one client frame: fin = 1, mask bit set, 7-bit length
ClientEncode(f) ==
    <<128 + f.op, 128 + Len(f.payload)>> \o f.key \o ClientMask(f.payload, f.key)

\* the frames the clients send: text "ping", text "a", text "", close, ping,
\* binary
ClientFrames ==
    { [op |-> 1, key |-> KeySample, payload |-> <<112, 105, 110, 103>>],
      [op |-> 1, key |-> KeySample, payload |-> <<97>>],
      [op |-> 1, key |-> KeyZero, payload |-> <<>>],
      [op |-> 8, key |-> KeySample, payload |-> <<>>],
      [op |-> 9, key |-> KeySample, payload |-> <<>>],
      [op |-> 2, key |-> KeyLenCode, payload |-> <<>>] }

\* what the application sends: "pong"
SendData == { <<112, 111, 110, 103>> }

\* ------------------------------------------------------------------ state
VARIABLES
    ws,          \* ws[c]: the SimpleWebSocket of connection c: state, the
                 \* writes made to its socket, the socket.end() calls
    sockClosed,  \* sockClosed[c]: the socket's 'close' event was emitted
    wire,        \* wire[c]: client bytes not yet handed to a 'data' event
    sent,        \* sent[c]: the frames client c sends, in order
    delivered,   \* delivered[c]: the onMessage calls, in order: the message
                 \* and the stream offset at which its 'data' buffer began
    split,       \* split[c]: some 'data' event ended inside a frame
    merged,      \* merged[c]: some 'data' event held bytes of two frames
    sendCalls,   \* sendCalls[c]: send() calls made on c
    closeCalls,  \* closeCalls[c]: close() calls made on c by the application
    crashed,     \* an exception left a listener: the process is gone
    request,     \* request[c]: the Sec-WebSocket-Key header of c's upgrade
                 \* request, a string or undefined
    path,        \* path[c]: the last segment of the pathname of c's upgrade
                 \* request, after '/ws/terminal/'
    wsConnections,  \* the Map wsConnections: terminal id -> the list of the
                 \* connections pushed for it
    sockErrored, \* sockErrored[c]: the socket emitted 'error'
    late,        \* late[c]: the calls made on c after its close frame was
                 \* written
    broadcasts,  \* the terminal ids of the Terminal.broadcast calls made
    websockets,  \* the Set this.websockets of the unified server
    usockets,    \* usockets[c]: socket c of the unified server: upgraded,
                 \* 'close' emitted, and the socket.write calls made on it
    handlers,    \* the message handlers the unified server started, in the
                 \* order of the 'data' events that started them
    now,         \* Date.now() of the auth server, in ms since it started
    ticks,       \* the number of times the clock was advanced
    stateMap,    \* OAuthServer.state: state token -> { provider, timestamp }
    issued,      \* the state tokens getAuthorizationURL issued, in order:
                 \* issued[n] is the entry set for the n-th token
    validated,   \* the state tokens validateState was called with
    accepted,    \* the state tokens validateState returned a provider for
    pendingAuthorizations,  \* DeviceFlow.pendingAuthorizations: user code ->
                 \* the authorization
    flows,       \* the device flows initiated, in order: flows[n] is the
                 \* entry set for the n-th flow
    granted,     \* granted[n]: the tokens of the last completeAuthorization
                 \* that returned true for the n-th flow
    succeeded,   \* the flows checkDeviceCode returned success for
    expiredReported,  \* the flows checkDeviceCode returned 'expired' for
    lastCall,    \* the last call made on the auth server, and its result
    codecIn,     \* the input one codec operation is applied to
    codecOut     \* the operation applied to codecIn, and its result

engineVars == <<ws, sockClosed, wire, sent, delivered, split, merged,
                sendCalls, closeCalls, crashed, request, path, wsConnections>>
hubVars == <<sockErrored, late, broadcasts>>
uniVars == <<websockets, usockets, handlers>>
clockVars == <<now, ticks>>
oauthVars == <<stateMap, issued, validated, accepted>>
deviceVars == <<pendingAuthorizations, flows, granted, succeeded, expiredReported>>
authVars == <<now, ticks, stateMap, issued, validated, accepted,
              pendingAuthorizations, flows, granted, succeeded, expiredReported,
              lastCall>>
codecVars == <<codecIn, codecOut>>
vars == <<ws, sockClosed, wire, sent, delivered, split, merged,
          sendCalls, closeCalls, crashed, request, path, wsConnections,
          sockErrored, late, broadcasts, websockets, usockets, handlers,
          now, ticks, stateMap, issued, validated, accepted,
          pendingAuthorizations, flows, granted, succeeded, expiredReported,
          lastCall, codecIn, codecOut>>

RECURSIVE Sum(_, _)
Sum(f, S) ==
    IF S = {} THEN 0
    ELSE LET x == CHOOSE y \in S : TRUE IN f[x] + Sum(f, S \ {x})

RECURSIVE StreamLen(_)
StreamLen(frames) ==
    IF frames = <<>> THEN 0
    ELSE Len(ClientEncode(frames[1])) + StreamLen(Tail(frames))

\* the offsets in c's byte stream at which a frame ends
FrameEnds(c) == { StreamLen(SubSeq(sent[c], 1, i)) : i \in 1..Len(sent[c]) }

\* bytes of c's stream already handed to 'data' events
Consumed(c) == StreamLen(sent[c]) - Len(wire[c])

\* the listeners are registered: the constructor has returned
Listening(c) == ws[c].state \in {"OPEN", "CLOSED"}

RECURSIVE Stream(_)
Stream(frames) ==
    IF frames = <<>> THEN <<>>
    ELSE ClientEncode(frames[1]) \o Stream(Tail(frames))

\* the frame sequences a client may send: the shortest frame has 6 bytes
FrameSeqs ==
    UNION { [1..n -> ClientFrames] : n \in 0..(MaxStream \div 6) }

\* "dGhlIHNhbXBsZSBub25jZQ==" and "x3JJHMbDL1EzLkh9GBhXDw=="
SampleKey ==
    <<100, 71, 104, 108, 73, 72, 78, 104, 98, 88, 66, 115, 90, 83, 66, 117, 98, 50,
      53, 106, 90, 81, 61, 61>>
OtherKey ==
    <<120, 51, 74, 74, 72, 77, 98, 68, 76, 49, 69, 122, 76, 107, 104, 57, 71, 66,
      104, 88, 68, 119, 61, 61>>

\* the Sec-WebSocket-Key header of an upgrade request: a key, the text "abc",
\* or no such header
Requests == {JsString(SampleKey), JsString(<<97, 98, 99>>), JsUndefined}

\* a JavaScript number that is an integer, and NaN
JsNumber(n) == [nan |-> FALSE, value |-> n]
JsNaN == [nan |-> TRUE, value |-> 0]

\* the number of decimal digits text begins with
RECURSIVE DigitsPrefix(_)
DigitsPrefix(text) ==
    IF text = <<>> THEN 0
    ELSE IF text[1] \in 48..57 THEN 1 + DigitsPrefix(Tail(text))
    ELSE 0

\* the value of a sequence of decimal digits
RECURSIVE Decimal(_)
Decimal(digits) ==
    IF digits = <<>> THEN 0
    ELSE (10 * Decimal(SubSeq(digits, 1, Len(digits) - 1)))
         + (digits[Len(digits)] - 48)

\* parseInt(text), for a text that begins with neither white space, a sign
\* nor 0x: the value of the digits it begins with, NaN when there is none
parseInt(text) ==
    IF DigitsPrefix(text) = 0 THEN JsNaN
    ELSE JsNumber(Decimal(SubSeq(text, 1, DigitsPrefix(text))))

\* the last path segments of upgrade requests: "0", "1x" and ""
Paths == {<<48>>, <<49, 120>>, <<>>}

\* terminalId of server.on('upgrade') for connection c
terminalId(c) == parseInt(path[c])

\* new Map()
EmptyMap == <<>>

\* wsConnections.get(id) || []
Connections(map, id) == IF id \in DOMAIN map THEN map[id] ELSE <<>>

\* server.on('upgrade') stores the connection: an empty list is set for an id
\* the map does not have, then the connection is pushed
storeConnection(map, id, c) ==
    IF id \in DOMAIN map THEN [map EXCEPT ![id] = Append(@, c)]
    ELSE map @@ (id :> <<c>>)

\* connections.indexOf(ws), from 1; 0 for -1
RECURSIVE indexOf(_, _)
indexOf(list, c) ==
    IF list = <<>> THEN 0
    ELSE IF list[1] = c THEN 1
    ELSE IF indexOf(Tail(list), c) = 0 THEN 0
    ELSE 1 + indexOf(Tail(list), c)

\* connections.splice(index - 1, 1)
splice(list, index) ==
    SubSeq(list, 1, index - 1) \o SubSeq(list, index + 1, Len(list))

\* a 'close' listener that takes the first connection out of the list, not
\* the one whose socket closed
removeFirst(map, id, c) ==
    IF id \notin DOMAIN map THEN map
    ELSE IF indexOf(map[id], c) = 0 THEN map
    ELSE [map EXCEPT ![id] = splice(@, 1)]

\* the socket 'close' listener of server.on('upgrade'): the connection is
\* spliced out of the list of its terminal id, if it is in it
removeConnection(map, id, c) ==
    IF id \notin DOMAIN map THEN map
    ELSE IF indexOf(map[id], c) = 0 THEN map
    ELSE [map EXCEPT ![id] = splice(@, indexOf(@, c))]

\* the connections held in some list of wsConnections
registry ==
    {c \in Conn : \E id \in DOMAIN wsConnections : indexOf(wsConnections[id], c) # 0}

\* no call made on the auth server yet
NoCall == [n |-> 0, op |-> "none"]

\* the auth server after its construction: new OAuthServer(), new DeviceFlow()
InitAuth ==
    /\ now = 0
    /\ ticks = 0
    /\ stateMap = EmptyMap
    /\ issued = <<>>
    /\ validated = {}
    /\ accepted = {}
    /\ pendingAuthorizations = EmptyMap
    /\ flows = <<>>
    /\ granted = EmptyMap
    /\ succeeded = {}
    /\ expiredReported = {}
    /\ lastCall = NoCall

\* a socket of the unified server before its upgrade
NoUSocket == [open |-> FALSE, closed |-> FALSE, written |-> <<>>]

\* no codec operation under way
NoInput == [kind |-> "none", bytes |-> <<>>, key |-> <<>>, bits |-> 0]
NoOutput == [op |-> "idle", result |-> <<>>]

\* each client's whole stream is chosen up front: the server never looks at
\* when the bytes were written, only at how they are cut into 'data' events
Init ==
    /\ ws = [c \in Conn |-> NoSocket]
    /\ sockClosed = [c \in Conn |-> FALSE]
    /\ sent \in [Conn -> FrameSeqs]
    /\ \A c \in Conn \ Deep : sent[c] = <<>>
    /\ Sum([c \in Conn |-> StreamLen(sent[c])], Conn) <= MaxStream
    /\ wire = [c \in Conn |-> Stream(sent[c])]
    /\ delivered = [c \in Conn |-> <<>>]
    /\ split = [c \in Conn |-> FALSE]
    /\ merged = [c \in Conn |-> FALSE]
    /\ sendCalls = [c \in Conn |-> 0]
    /\ closeCalls = [c \in Conn |-> 0]
    /\ crashed = FALSE
    /\ request \in [Conn -> Requests]
    /\ \A c \in Conn \ Deep : request[c] = JsString(SampleKey)
    /\ path = [c \in Conn |-> <<48>>]
    /\ wsConnections = EmptyMap
    /\ sockErrored = [c \in Conn |-> FALSE]
    /\ late = [c \in Conn |-> {}]
    /\ broadcasts = <<>>
    /\ websockets = {}
    /\ usockets = [c \in Conn |-> NoUSocket]
    /\ handlers = <<>>
    /\ InitAuth
    /\ codecIn = NoInput
    /\ codecOut = NoOutput

\* server.on('upgrade') reaches `new SimpleWebSocket`: the constructor's
\* first two statements
Construct(c) ==
    /\ ~crashed
    /\ ws[c].state = "NONE"
    /\ ws' = [ws EXCEPT ![c] = construct]
    /\ UNCHANGED <<sockClosed, wire, sent, delivered, split, merged,
                   sendCalls, closeCalls, crashed>>
    /\ UNCHANGED <<request, path, wsConnections>>
    /\ UNCHANGED codecVars
    /\ UNCHANGED authVars
    /\ UNCHANGED uniVars
    /\ UNCHANGED hubVars

\* the rest of the constructor, and what server.on('upgrade') does in the same
\* synchronous run once it has returned: the push onto wsConnections
Handshake(c) ==
    /\ ~crashed
    /\ ws[c].state = "CONNECTING"
    /\ ws' = [ws EXCEPT ![c] = handshake(@, request[c])]
    /\ wsConnections' = storeConnection(wsConnections, terminalId(c), c)
    /\ UNCHANGED <<sockClosed, wire, sent, delivered, split, merged,
                   sendCalls, closeCalls, crashed>>
    /\ UNCHANGED <<request, path>>
    /\ UNCHANGED codecVars
    /\ UNCHANGED authVars
    /\ UNCHANGED uniVars
    /\ UNCHANGED hubVars

\* socket.on('data'): the next k bytes of the stream arrive as one buffer and
\* parseFrame runs on it, with onMessage / close() called from inside it
OnData(c, k) ==
    /\ ~crashed
    /\ Listening(c)
    /\ ~sockClosed[c]
    /\ k \in 1..Len(wire[c])
    /\ LET buffer == SubSeq(wire[c], 1, k)
           from == Consumed(c)
           r == parseFrame(buffer)
       IN /\ wire' = [wire EXCEPT ![c] = SubSeq(@, k + 1, Len(@))]
          /\ split' = [split EXCEPT ![c] = @ \/ (from + k) \notin FrameEnds(c)]
          /\ merged' = [merged EXCEPT ![c] =
                           @ \/ \E e \in FrameEnds(c) : from < e /\ e < from + k]
          /\ crashed' = (r.kind = "throw")
          /\ delivered' = [delivered EXCEPT ![c] =
                IF r.kind = "text"
                THEN onMessage(@, [message |-> r.message, from |-> from])
                ELSE @]
          /\ ws' = [ws EXCEPT ![c] = IF r.kind = "close" THEN close(@) ELSE @]
    /\ UNCHANGED <<sockClosed, sent, sendCalls, closeCalls>>
    /\ UNCHANGED <<request, path, wsConnections>>
    /\ UNCHANGED codecVars
    /\ UNCHANGED authVars
    /\ UNCHANGED uniVars
    /\ UNCHANGED hubVars

\* the socket's 'close' event: the listener of the constructor, and the one
\* of server.on('upgrade') that takes the connection out of wsConnections
SocketClose(c) ==
    /\ ~crashed
    /\ Listening(c)
    /\ ~sockClosed[c]
    /\ sockClosed' = [sockClosed EXCEPT ![c] = TRUE]
    /\ ws' = [ws EXCEPT ![c] = onSocketClose(@)]
    /\ wsConnections' = removeConnection(wsConnections, terminalId(c), c)
    /\ UNCHANGED <<wire, sent, delivered, split, merged,
                   sendCalls, closeCalls, crashed>>
    /\ UNCHANGED <<request, path>>
    /\ UNCHANGED codecVars
    /\ UNCHANGED authVars
    /\ UNCHANGED uniVars
    /\ UNCHANGED hubVars

\* the close frame is among the writes made to the socket of w
CloseFrameWritten(w) ==
    \E i \in 1..Len(w.written) : w.written[i] = FrameWrite(closeFrame)

\* late[c] after the call `name` on c
Called(c, name) ==
    IF CloseFrameWritten(ws[c]) THEN [late EXCEPT ![c] = @ \cup {name}] ELSE late

\* the application calls ws.send(data)
Send(c, data) ==
    /\ ~crashed
    /\ ws[c].state # "NONE"
    /\ Sum(sendCalls, Conn) < MaxSends
    /\ sendCalls' = [sendCalls EXCEPT ![c] = @ + 1]
    /\ ws' = [ws EXCEPT ![c] = send(@, data)]
    /\ late' = Called(c, "send")
    /\ UNCHANGED <<sockClosed, wire, sent, delivered, split, merged,
                   closeCalls, crashed>>
    /\ UNCHANGED <<request, path, wsConnections>>
    /\ UNCHANGED codecVars
    /\ UNCHANGED authVars
    /\ UNCHANGED uniVars
    /\ UNCHANGED <<sockErrored, broadcasts>>

\* the application calls ws.close()
LocalClose(c) ==
    /\ ~crashed
    /\ Listening(c)
    /\ Sum(closeCalls, Conn) < MaxCloses
    /\ closeCalls' = [closeCalls EXCEPT ![c] = @ + 1]
    /\ ws' = [ws EXCEPT ![c] = close(@)]
    /\ late' = Called(c, "close")
    /\ UNCHANGED <<sockClosed, wire, sent, delivered, split, merged,
                   sendCalls, crashed>>
    /\ UNCHANGED <<request, path, wsConnections>>
    /\ UNCHANGED codecVars
    /\ UNCHANGED authVars
    /\ UNCHANGED uniVars
    /\ UNCHANGED <<sockErrored, broadcasts>>

Next ==
    \E c \in Deep :
        \/ Construct(c)
        \/ Handshake(c)
        \/ \E k \in 1..Len(wire[c]) : OnData(c, k)
        \/ SocketClose(c)
        \/ \E data \in SendData : Send(c, data)
        \/ LocalClose(c)

Spec == Init /\ [][Next]_vars

\* ------------------------------------- the server with all its connections
\* Every connection of Conn is followed: upgrades on the paths of Paths, the
\* sockets' 'data', 'close' and 'error' events, and Terminal.broadcast for the
\* terminals 0..NumTerminals-1.

\* the events of the socket for which the constructor (keti-code.js 59, 63) and
\* server.on('upgrade') (454) register a listener
socketListeners == {"data", "close"}

\* the socket listeners with an 'error' listener among them
socketListenersAll == {"data", "close", "error"}

\* EventEmitter.emit: an 'error' event without a listener is thrown
emitThrows(event) == event = "error" /\ event \notin socketListeners

Terminals == 0..(NumTerminals - 1)

\* JSON.stringify({ type: 'output', data: data }), for a string data none of
\* whose characters needs an escape
JsonOutput(data) ==
    <<123, 34, 116, 121, 112, 101, 34, 58, 34, 111, 117, 116, 112, 117, 116, 34,
      44, 34, 100, 97, 116, 97, 34, 58, 34>> \o data \o <<34, 125>>

\* what the shells print: "hi"
BroadcastData == { <<104, 105>> }

\* a send to the first connection of the list only
sendFirst(all, connections, text) ==
    IF connections = <<>> THEN all
    ELSE [all EXCEPT ![connections[1]] = send(@, text)]

\* connections.forEach(ws => ws.send(text)), on all the connections at once
RECURSIVE sendEach(_, _, _)
sendEach(all, connections, text) ==
    IF connections = <<>> THEN all
    ELSE sendEach([all EXCEPT ![connections[1]] = send(@, text)],
                  Tail(connections), text)

\* Terminal.broadcast(message) of the terminal `id`, on all the connections
broadcast(all, map, id, message) ==
    sendEach(all, Connections(map, JsNumber(id)), JsonOutput(message))

\* the number of times c is in the list
RECURSIVE Occurrences(_, _)
Occurrences(list, c) ==
    IF list = <<>> THEN 0
    ELSE (IF list[1] = c THEN 1 ELSE 0) + Occurrences(Tail(list), c)

\* the streams of the clients: nothing, a close frame, or an empty binary
\* frame masked with 00 7e 00 00
HubFrameSeqs ==
    { <<>>,
      << [op |-> 8, key |-> KeySample, payload |-> <<>>] >>,
      << [op |-> 2, key |-> <<0, 126, 0, 0>>, payload |-> <<>>] >> }

\* the sizes of the 'data' events of connection c: two bytes, or all the
\* bytes that are pending
HubChunks(c) == {k \in {2, Len(wire[c])} : k \in 1..Len(wire[c])}

InitHub ==
    /\ ws = [c \in Conn |-> NoSocket]
    /\ sockClosed = [c \in Conn |-> FALSE]
    /\ sent \in [Conn -> HubFrameSeqs]
    /\ Sum([c \in Conn |-> StreamLen(sent[c])], Conn) <= MaxStream
    /\ wire = [c \in Conn |-> Stream(sent[c])]
    /\ delivered = [c \in Conn |-> <<>>]
    /\ split = [c \in Conn |-> FALSE]
    /\ merged = [c \in Conn |-> FALSE]
    /\ sendCalls = [c \in Conn |-> 0]
    /\ closeCalls = [c \in Conn |-> 0]
    /\ crashed = FALSE
    /\ request = [c \in Conn |-> JsString(SampleKey)]
    /\ path = [c \in Conn |-> <<48>>]
    /\ wsConnections = EmptyMap
    /\ sockErrored = [c \in Conn |-> FALSE]
    /\ late = [c \in Conn |-> {}]
    /\ broadcasts = <<>>
    /\ websockets = {}
    /\ usockets = [c \in Conn |-> NoUSocket]
    /\ handlers = <<>>
    /\ InitAuth
    /\ codecIn = NoInput
    /\ codecOut = NoOutput

\* the clients send nothing; each upgrade request has one of the paths
InitTerminals ==
    /\ ws = [c \in Conn |-> NoSocket]
    /\ sockClosed = [c \in Conn |-> FALSE]
    /\ sent = [c \in Conn |-> <<>>]
    /\ wire = [c \in Conn |-> <<>>]
    /\ delivered = [c \in Conn |-> <<>>]
    /\ split = [c \in Conn |-> FALSE]
    /\ merged = [c \in Conn |-> FALSE]
    /\ sendCalls = [c \in Conn |-> 0]
    /\ closeCalls = [c \in Conn |-> 0]
    /\ crashed = FALSE
    /\ request = [c \in Conn |-> JsString(SampleKey)]
    /\ path \in [Conn -> Paths]
    /\ wsConnections = EmptyMap
    /\ sockErrored = [c \in Conn |-> FALSE]
    /\ late = [c \in Conn |-> {}]
    /\ broadcasts = <<>>
    /\ websockets = {}
    /\ usockets = [c \in Conn |-> NoUSocket]
    /\ handlers = <<>>
    /\ InitAuth
    /\ codecIn = NoInput
    /\ codecOut = NoOutput

\* server.on('upgrade') for the request of connection c, in one synchronous
\* run: the constructor, then the push onto wsConnections. The connections
\* are numbered in the order of their upgrades.
Upgrade(c) ==
    /\ ~crashed
    /\ ws[c].state = "NONE"
    /\ \A d \in Conn : d < c => ws[d].state # "NONE"
    /\ ws' = [ws EXCEPT ![c] = handshake(construct, request[c])]
    /\ wsConnections' = storeConnection(wsConnections, terminalId(c), c)
    /\ UNCHANGED <<sockClosed, wire, sent, delivered, split, merged,
                   sendCalls, closeCalls, crashed, request, path>>
    /\ UNCHANGED hubVars
    /\ UNCHANGED codecVars
    /\ UNCHANGED authVars
    /\ UNCHANGED uniVars

\* the socket emits 'error' (the peer reset the connection, a write failed)
SocketError(c) ==
    /\ ~crashed
    /\ Listening(c)
    /\ ~sockClosed[c]
    /\ ~sockErrored[c]
    /\ sockErrored' = [sockErrored EXCEPT ![c] = TRUE]
    /\ crashed' = emitThrows("error")
    /\ UNCHANGED <<ws, sockClosed, wire, sent, delivered, split, merged,
                   sendCalls, closeCalls, request, path, wsConnections>>
    /\ UNCHANGED <<late, broadcasts>>
    /\ UNCHANGED codecVars
    /\ UNCHANGED authVars
    /\ UNCHANGED uniVars

\* the shell of terminal id prints data: Terminal.broadcast
Broadcast(id, data) ==
    /\ ~crashed
    /\ Len(broadcasts) < MaxBroadcasts
    /\ broadcasts' = Append(broadcasts, id)
    /\ ws' = broadcast(ws, wsConnections, id, data)
    /\ sendCalls' = [c \in Conn |->
           sendCalls[c] + Occurrences(Connections(wsConnections, JsNumber(id)), c)]
    /\ late' = [c \in Conn |->
           IF /\ Occurrences(Connections(wsConnections, JsNumber(id)), c) > 0
              /\ CloseFrameWritten(ws[c])
           THEN late[c] \cup {"broadcast"} ELSE late[c]]
    /\ UNCHANGED <<sockClosed, wire, sent, delivered, split, merged,
                   closeCalls, crashed, request, path, wsConnections>>
    /\ UNCHANGED sockErrored
    /\ UNCHANGED codecVars
    /\ UNCHANGED authVars
    /\ UNCHANGED uniVars

\* the sockets' events on all the connections
NextHub ==
    \E c \in Conn :
        \/ Upgrade(c)
        \/ \E k \in HubChunks(c) : OnData(c, k)
        \/ SocketClose(c)
        \/ SocketError(c)
        \/ LocalClose(c)

SpecHub == InitHub /\ [][NextHub]_vars

\* the calls made on the connections, and the terminals' broadcasts
NextTerminals ==
    \/ \E c \in Conn :
          \/ Upgrade(c)
          \/ SocketClose(c)
          \/ \E data \in SendData : Send(c, data)
          \/ LocalClose(c)
    \/ \E id \in Terminals : \E data \in BroadcastData : Broadcast(id, data)

SpecTerminals == InitTerminals /\ [][NextTerminals]_vars

\* ------------------------------------------------- the codec, call by call
\* parseFrame, parseWebSocketFrame, send and generateAcceptKey are functions of
\* their arguments: SpecCodec picks one input and applies one of them to it.

\* the code points the texts are made of: 'a', e-acute (2 bytes), the euro
\* sign (3 bytes)
CodecChars == {97, 233, 8364}
CodecTexts == UNION { [1..n -> CodecChars] : n \in 0..MaxText }

\* the mask keys of the codec's frames
CodecKeys == {KeyZero, KeySample, KeyLenCode, <<255, 255, 255, 255>>}

\* how a client may write a payload length: in the 7-bit field, in 16 bits
\* after 126, or in 64 bits after 127, whose high four bytes are `high`
CodecForms ==
    { [bits |-> 7, high |-> <<0, 0, 0, 0>>],
      [bits |-> 16, high |-> <<0, 0, 0, 0>>],
      [bits |-> 64, high |-> <<0, 0, 0, 0>>],
      [bits |-> 64, high |-> <<0, 0, 0, 1>>],
      [bits |-> 64, high |-> <<0, 32, 0, 0>>] }

\* four bytes, big-endian
Bytes32(n) ==
    <<(n \div 16777216) % 256, (n \div 65536) % 256, (n \div 256) % 256, n % 256>>
Value32(b) == (b[1] * 16777216) + (b[2] * 65536) + (b[3] * 256) + b[4]

\* a masked frame as RFC 6455 5.2 lays it out, its length written in `form`
ClientEncodeAs(form, op, key, payload) ==
    (IF form.bits = 7 THEN <<128 + op, 128 + Len(payload)>>
     ELSE IF form.bits = 16
          THEN <<128 + op, 254, Len(payload) \div 256, Len(payload) % 256>>
          ELSE <<128 + op, 255>> \o form.high \o Bytes32(Len(payload)))
    \o key \o ClientMask(payload, key)

\* the buffers a 'data' event may carry: a text or close frame, or any
\* beginning of one
CodecFrames ==
    { ClientEncodeAs(form, op, key, Utf8Encode(text)) :
        form \in CodecForms, op \in {1, 8}, key \in {KeyZero, KeySample},
        text \in CodecTexts }
CodecBuffers == UNION { { SubSeq(b, 1, n) : n \in 0..Len(b) } : b \in CodecFrames }

\* "Hello" (RFC 6455 5.7)
Hello == <<72, 101, 108, 108, 111>>

\* a whole text frame of a client: its text, its mask key, the encoding of its
\* length
CodecMasked ==
    { [kind |-> "frame", bytes |-> Utf8Encode(text), key |-> key, bits |-> bits] :
        text \in CodecTexts \cup {Hello}, key \in CodecKeys, bits \in {7, 16, 64} }

\* "pong"
Pong == <<112, 111, 110, 103>>

\* the payload lengths at which the length encoding changes
EdgeLengths == {0, 1, 125, 126, 65535, 65536}

\* a text of n letters
Letters(n) == [i \in 1..n |-> 97 + (i % 26)]

\* what the application sends, and the mask key a client would use to send the
\* same frame back
CodecData ==
    { [kind |-> "data", bytes |-> data, key |-> key, bits |-> 0] :
        data \in CodecTexts \cup {Pong} \cup { Letters(n) : n \in EdgeLengths },
        key \in {KeyZero, KeySample} }

\* the values a Sec-WebSocket-Key header may have: the two keys, the empty
\* string, and texts that are no base64 of 16 bytes
CodecHeaderKeys ==
    { [kind |-> "key", bytes |-> k, key |-> <<>>, bits |-> 0] :
        k \in {SampleKey, OtherKey} \cup CodecTexts }

CodecInputs ==
    { [kind |-> "buffer", bytes |-> b, key |-> <<>>, bits |-> 0] : b \in CodecBuffers }
    \cup CodecMasked
    \cup CodecData
    \cup CodecHeaderKeys

\* a frame written by send() as a client would send it: the mask bit set, the
\* key inserted after the length bytes, the payload masked
MaskFrame(frame, key) ==
    LET headerLen == IF frame[2] = 126 THEN 4 ELSE IF frame[2] = 127 THEN 10 ELSE 2
    IN <<frame[1], frame[2] + 128>> \o SubSeq(frame, 3, headerLen) \o key
       \o ClientMask(SubSeq(frame, headerLen + 1, Len(frame)), key)

\* the bytes on the wire for an input of CodecMasked
CodecWire(in) ==
    ClientEncodeAs([bits |-> in.bits, high |-> <<0, 0, 0, 0>>], 1, in.key, in.bytes)

\* a connection after its handshake
OpenSocket == handshake(construct, JsString(SampleKey))

InitCodec ==
    /\ ws = [c \in Conn |-> NoSocket]
    /\ sockClosed = [c \in Conn |-> FALSE]
    /\ sent = [c \in Conn |-> <<>>]
    /\ wire = [c \in Conn |-> <<>>]
    /\ delivered = [c \in Conn |-> <<>>]
    /\ split = [c \in Conn |-> FALSE]
    /\ merged = [c \in Conn |-> FALSE]
    /\ sendCalls = [c \in Conn |-> 0]
    /\ closeCalls = [c \in Conn |-> 0]
    /\ crashed = FALSE
    /\ request = [c \in Conn |-> JsString(SampleKey)]
    /\ path = [c \in Conn |-> <<48>>]
    /\ wsConnections = EmptyMap
    /\ sockErrored = [c \in Conn |-> FALSE]
    /\ late = [c \in Conn |-> {}]
    /\ broadcasts = <<>>
    /\ websockets = {}
    /\ usockets = [c \in Conn |-> NoUSocket]
    /\ handlers = <<>>
    /\ InitAuth
    /\ codecIn \in CodecInputs
    /\ codecOut = NoOutput

\* SimpleWebSocket.parseFrame(buffer)
ParseFrame ==
    /\ codecIn.kind = "buffer"
    /\ codecOut.op = "idle"
    /\ codecOut' = [op |-> "parseFrame", result |-> parseFrame(codecIn.bytes)]
    /\ UNCHANGED codecIn
    /\ UNCHANGED engineVars
    /\ UNCHANGED authVars
    /\ UNCHANGED uniVars
    /\ UNCHANGED hubVars

\* KetiUnifiedServer.parseWebSocketFrame(buffer)
ParseWebSocketFrame ==
    /\ codecIn.kind = "buffer"
    /\ codecOut.op = "idle"
    /\ codecOut' = [op |-> "parseWebSocketFrame",
                    result |-> parseWebSocketFrame(codecIn.bytes)]
    /\ UNCHANGED codecIn
    /\ UNCHANGED engineVars
    /\ UNCHANGED authVars
    /\ UNCHANGED uniVars
    /\ UNCHANGED hubVars

\* a whole masked text frame through parseFrame; the application answers with
\* send(message)
ParseMasked ==
    /\ codecIn.kind = "frame"
    /\ codecOut.op = "idle"
    /\ LET r == parseFrame(CodecWire(codecIn))
       IN codecOut' = [op |-> "parseMasked",
                       result |-> [kind |-> r.kind, message |-> r.message,
                                   payload |-> framePayload(CodecWire(codecIn)),
                                   echo |-> send(OpenSocket, r.message).written]]
    /\ UNCHANGED codecIn
    /\ UNCHANGED engineVars
    /\ UNCHANGED authVars
    /\ UNCHANGED uniVars
    /\ UNCHANGED hubVars

\* SimpleWebSocket.send(data) on an OPEN connection
SendFrame ==
    /\ codecIn.kind = "data"
    /\ codecOut.op = "idle"
    /\ codecOut' = [op |-> "send", result |-> send(OpenSocket, codecIn.bytes)]
    /\ UNCHANGED codecIn
    /\ UNCHANGED engineVars
    /\ UNCHANGED authVars
    /\ UNCHANGED uniVars
    /\ UNCHANGED hubVars

\* KetiUnifiedServer.sendWebSocketMessage(socket, data) after the handshake
SendWebSocketMessage ==
    /\ codecIn.kind = "data"
    /\ codecOut.op = "idle"
    /\ codecOut' = [op |-> "sendWebSocketMessage",
                    result |-> sendWebSocketMessage(OpenSocket.written, codecIn.bytes)]
    /\ UNCHANGED codecIn
    /\ UNCHANGED engineVars
    /\ UNCHANGED authVars
    /\ UNCHANGED uniVars
    /\ UNCHANGED hubVars

\* send(data), and the frame it wrote, masked, through parseFrame
RoundTrip ==
    /\ codecIn.kind = "data"
    /\ codecOut.op = "idle"
    /\ LET written == send(OpenSocket, codecIn.bytes).written
           frame == written[Len(written)].bytes
       IN codecOut' = [op |-> "roundTrip",
                       result |-> parseFrame(MaskFrame(frame, codecIn.key))]
    /\ UNCHANGED codecIn
    /\ UNCHANGED engineVars
    /\ UNCHANGED authVars
    /\ UNCHANGED uniVars
    /\ UNCHANGED hubVars

\* the accept key, as each of the three handshakes computes it
AcceptKey ==
    /\ codecIn.kind = "key"
    /\ codecOut.op = "idle"
    /\ codecOut' = [op |-> "accept",
                    result |-> [code |-> generateAcceptKey(JsString(codecIn.bytes)),
                                unified |-> generateAcceptKeyUnified(JsString(codecIn.bytes)),
                                zero |-> zeroCodeAcceptKey(JsString(codecIn.bytes))]]
    /\ UNCHANGED codecIn
    /\ UNCHANGED engineVars
    /\ UNCHANGED authVars
    /\ UNCHANGED uniVars
    /\ UNCHANGED hubVars

NextCodec ==
    \/ AcceptKey
    \/ ParseFrame
    \/ ParseWebSocketFrame
    \/ ParseMasked
    \/ SendFrame
    \/ SendWebSocketMessage
    \/ RoundTrip

SpecCodec == InitCodec /\ [][NextCodec]_vars

\* ----------------------------------------------------- what the claims read
\* close frames written to w's socket so far
CloseFrames(w) ==
    Cardinality({ i \in 1..Len(w.written) : w.written[i] = FrameWrite(closeFrame) })

\* this step is a 'data' event of c; Chunk(c) is the buffer it carried
DataStep(c) == Len(wire'[c]) < Len(wire[c])
Chunk(c) == SubSeq(wire[c], 1, Len(wire[c]) - Len(wire'[c]))

\* RFC 6455 framing, read off a buffer: the bytes of header and mask key, and
\* whether the buffer stops short of the frame it starts (lengths of 7 and 16
\* bits; the model's buffers declare no 64-bit length)
HeaderBytes(buffer) ==
    2 + (IF buffer[2] % 128 = 126 THEN 2 ELSE 0) + (IF buffer[2] >= 128 THEN 4 ELSE 0)
DeclaredLength(buffer) ==
    IF buffer[2] % 128 = 126 THEN (buffer[3] * 256) + buffer[4] ELSE buffer[2] % 128
Incomplete(buffer) ==
    \/ Len(buffer) < 2
    \/ Len(buffer) < HeaderBytes(buffer)
    \/ Len(buffer) < HeaderBytes(buffer) + DeclaredLength(buffer)

\* the messages onMessage was called with on c, in order
Messages(c) == [i \in 1..Len(delivered[c]) |-> delivered[c][i].message]

\* the text a client put into frame f
Text(f) == Utf8Decode(f.payload)

\* the texts of the text frames among `frames`, in order
RECURSIVE TextsOf(_)
TextsOf(frames) ==
    IF frames = <<>> THEN <<>>
    ELSE (IF frames[1].op = 1 THEN <<Text(frames[1])>> ELSE <<>>)
         \o TextsOf(Tail(frames))

\* the frames of c whose last byte has been handed to a 'data' event
Arrived(c) ==
    LET n == CHOOSE m \in 0..Len(sent[c]) :
                 /\ StreamLen(SubSeq(sent[c], 1, m)) <= Consumed(c)
                 /\ \A k \in (m + 1)..Len(sent[c]) :
                        StreamLen(SubSeq(sent[c], 1, k)) > Consumed(c)
    IN SubSeq(sent[c], 1, n)

\* ------------------------------------------------------------------ claims
\* C1: a connection's state only moves NONE -> CONNECTING -> OPEN -> CLOSED:
\* nothing is written while CONNECTING, the step to OPEN is the handshake
\* write, and no step leaves CLOSED.
C1_StateMachine ==
    [][\A c \in Conn :
        /\ ws'[c].state # ws[c].state =>
               <<ws[c].state, ws'[c].state>> \in
                   { <<"NONE", "CONNECTING">>, <<"CONNECTING", "OPEN">>,
                     <<"OPEN", "CLOSED">> }
        /\ ws'[c].state = "CONNECTING" => ws'[c].written = <<>>
        /\ (ws[c].state = "CONNECTING" /\ ws'[c].state = "OPEN") =>
               /\ Len(ws'[c].written) = 1
               /\ ws'[c].written[1].kind = "handshake"
        /\ ws[c].state = "CLOSED" => ws'[c].state = "CLOSED"]_vars

\* C1 witness: a connection closed by the client's close frame that has since
\* seen two close() calls, more data and the socket's close event.
C1_Witness ==
    \E c \in Conn :
        /\ ws[c].state = "CLOSED"
        /\ Len(sent[c]) = 2 /\ sent[c][1].op = 8
        /\ wire[c] = <<>>
        /\ closeCalls[c] = 2
        /\ sockClosed[c]

\* C2: a 'data' event whose buffer stops short of the frame it starts calls
\* neither onMessage nor close() (and raises nothing).
C2_IncompleteInvokesNothing ==
    [][\A c \in Conn :
        (DataStep(c) /\ Incomplete(Chunk(c))) =>
            /\ delivered'[c] = delivered[c]
            /\ ws'[c] = ws[c]
            /\ ~crashed']_vars

\* C3: when the client sends one text frame, onMessage is not called while
\* bytes of it are still to arrive, and has been called exactly once, with
\* the frame's text, when the last byte has arrived, however the bytes were
\* cut into 'data' events.
C3_SplitFrameDeliveredOnce ==
    \A c \in Conn :
        (Len(sent[c]) = 1 /\ sent[c][1].op = 1) =>
            Messages(c) = IF wire[c] = <<>> THEN <<Text(sent[c][1])>> ELSE <<>>

\* C4: when every 'data' event ends at a frame boundary (so an event carries
\* one or more whole frames) and the whole stream of text, ping and binary
\* frames has arrived, onMessage has been called for every text frame.
C4_EveryFrameDispatched ==
    \A c \in Conn :
        (/\ ~split[c]
         /\ wire[c] = <<>>
         /\ \A i \in 1..Len(sent[c]) : sent[c][i].op # 8) =>
            Messages(c) = TextsOf(sent[c])

\* C5: a send() call on a connection that is not OPEN leaves the connection
\* as it was: nothing written, state unchanged.
C5_SendNotOpen ==
    [][\A c \in Conn :
        (sendCalls'[c] # sendCalls[c] /\ ws[c].state # "OPEN") =>
            ws'[c] = ws[c]]_vars

\* C5 witness: send() was called, and the socket holds the handshake and the
\* close frame only: the call came while the connection was not OPEN.
C5_Witness ==
    \E c \in Conn :
        /\ sendCalls[c] = 1
        /\ Len(ws[c].written) = 2
        /\ ws[c].written[1].kind = "handshake"
        /\ ws[c].written[2] = FrameWrite(closeFrame)

\* C6: close() on an OPEN connection writes the close frame, calls
\* socket.end() once and sets CLOSED; close() on a CLOSED connection changes
\* nothing and raises nothing; so after any number of close() calls on a
\* socket that is still up there is exactly one close frame and one end().
C6_CloseTwice ==
    /\ [][\A c \in Conn :
            closeCalls'[c] # closeCalls[c] =>
                /\ ~crashed'
                /\ ws[c].state = "OPEN" =>
                       ws'[c] = [state |-> "CLOSED",
                                 written |-> Append(ws[c].written, FrameWrite(closeFrame)),
                                 ended |-> ws[c].ended + 1]
                /\ ws[c].state = "CLOSED" => ws'[c] = ws[c]]_vars
    /\ [](\A c \in Conn :
            (closeCalls[c] >= 1 /\ ~sockClosed[c]) =>
                (CloseFrames(ws[c]) = 1 /\ ws[c].ended = 1))

\* C6 witness: two close() calls, no close frame from the client, the socket
\* still up: one close frame, one end().
C6_Witness ==
    \E c \in Conn :
        /\ closeCalls[c] = 2
        /\ \A i \in 1..Len(sent[c]) : sent[c][i].op # 8
        /\ ~sockClosed[c]
        /\ CloseFrames(ws[c]) = 1
        /\ ws[c].ended = 1

\* C7 as claimed: every step into CLOSED, the socket's close event included,
\* writes the close frame and ends the socket, and no socket ever holds two
\* close frames.
C7_EveryCloseWritesFrame ==
    [][\A c \in Conn :
        /\ (ws[c].state # "CLOSED" /\ ws'[c].state = "CLOSED") =>
               /\ ws'[c].written = Append(ws[c].written, FrameWrite(closeFrame))
               /\ ws'[c].ended = ws[c].ended + 1
        /\ CloseFrames(ws'[c]) <= 1]_vars

\* C7 as amended: a step into CLOSED made by a received close frame or by
\* close() writes the close frame and ends the socket; the step made by the
\* socket's close event writes nothing and ends nothing; no socket ever holds
\* two close frames.
C7_CloseFrameUnlessSocketClosed ==
    [][\A c \in Conn :
        /\ (ws[c].state # "CLOSED" /\ ws'[c].state = "CLOSED") =>
               IF sockClosed'[c] # sockClosed[c]
               THEN /\ ws'[c].written = ws[c].written
                    /\ ws'[c].ended = ws[c].ended
               ELSE /\ ws'[c].written = Append(ws[c].written, FrameWrite(closeFrame))
                    /\ ws'[c].ended = ws[c].ended + 1
        /\ CloseFrames(ws'[c]) <= 1]_vars

\* C7 witness: the client's close frame closed the connection: one close
\* frame written, the socket ended once, no close() call by the application.
C7_Witness ==
    \E c \in Conn :
        /\ ws[c].state = "CLOSED"
        /\ closeCalls[c] = 0
        /\ ~sockClosed[c]
        /\ CloseFrames(ws[c]) = 1
        /\ ws[c].ended = 1

\* C8: a 'data' event carrying exactly one client frame: a text frame calls
\* onMessage once with the frame's text and touches nothing else; a close
\* frame calls no onMessage and runs close().
C8_Dispatch ==
    [][\A c \in Conn : \A f \in ClientFrames :
        (DataStep(c) /\ Chunk(c) = ClientEncode(f)) =>
            /\ f.op = 1 =>
                   /\ delivered'[c] =
                          Append(delivered[c],
                                 [message |-> Text(f), from |-> Consumed(c)])
                   /\ ws'[c] = ws[c]
            /\ f.op = 8 =>
                   /\ delivered'[c] = delivered[c]
                   /\ ws'[c].state = "CLOSED"
                   /\ ws[c].state = "OPEN" =>
                          /\ ws'[c].written =
                                 Append(ws[c].written, FrameWrite(closeFrame))
                          /\ ws'[c].ended = ws[c].ended + 1
                   /\ ws[c].state = "CLOSED" => ws'[c] = ws[c]]_vars

\* C8 witness: the masked text frame "a" and then a close frame arrived, each
\* in its own 'data' event: "a" was delivered and the connection closed.
C8_Witness ==
    \E c \in Conn :
        /\ Len(sent[c]) = 2 /\ sent[c][1].op = 1 /\ sent[c][2].op = 8
        /\ sent[c][1].key = KeySample
        /\ ~split[c] /\ ~merged[c] /\ wire[c] = <<>>
        /\ Messages(c) = <<Text(sent[c][1])>>
        /\ Messages(c) = <<<<97>>>>
        /\ ws[c].state = "CLOSED"
        /\ closeCalls[c] = 0 /\ ~sockClosed[c]

\* C9: once a frame with an opcode other than 1 and 8 has arrived (each frame
\* in its own 'data' event), the connection is CLOSED and a close frame was
\* written.
C9_UnsupportedOpcodeFatal ==
    \A c \in Conn :
        (/\ ~split[c] /\ ~merged[c]
         /\ \E i \in 1..Len(Arrived(c)) : sent[c][i].op \notin {1, 8}) =>
            (ws[c].state = "CLOSED" /\ CloseFrames(ws[c]) = 1)

\* C10: the onMessage calls of a connection are in the order in which the
\* buffers they were decoded from arrived, one call per buffer at most; and
\* while the connection is OPEN and each frame arrives in its own 'data'
\* event, the calls made so far are the texts of the text frames that have
\* arrived, in the order of arrival.
C10_ArrivalOrder ==
    \A c \in Conn :
        /\ \A i, j \in 1..Len(delivered[c]) :
               i < j => delivered[c][i].from < delivered[c][j].from
        /\ (ws[c].state = "OPEN" /\ ~split[c] /\ ~merged[c]) =>
               Messages(c) = TextsOf(Arrived(c))

\* C10 witness: two different text frames arrived one after the other and
\* were delivered in that order.
C10_Witness ==
    \E c \in Conn :
        /\ ws[c].state = "OPEN" /\ ~split[c] /\ ~merged[c]
        /\ Len(sent[c]) = 2 /\ wire[c] = <<>>
        /\ sent[c][1].op = 1 /\ sent[c][2].op = 1
        /\ Text(sent[c][1]) # Text(sent[c][2])
        /\ Messages(c) = <<Text(sent[c][1]), Text(sent[c][2])>>

\* RFC 6455 5.2: the payload length a buffer (of a whole header) declares, as
\* <<high 32 bits, low 32 bits>>
DeclaredLength64(buffer) ==
    IF buffer[2] % 128 = 126 THEN <<0, (buffer[3] * 256) + buffer[4]>>
    ELSE IF buffer[2] % 128 = 127
         THEN <<Value32(SubSeq(buffer, 3, 6)), Value32(SubSeq(buffer, 7, 10))>>
         ELSE <<0, buffer[2] % 128>>

\* the codec call handed a payload to the application: parseFrame called
\* onMessage, parseWebSocketFrame returned a string that passes `if (message)`
CodecDispatched ==
    \/ codecOut.op = "parseFrame" /\ codecOut.result.kind = "text"
    \/ /\ codecOut.op = "parseWebSocketFrame"
       /\ codecOut.result.kind = "string"
       /\ codecOut.result.message # <<>>

\* the payload bytes that call handed over
CodecPayload ==
    IF codecOut.op = "parseFrame" THEN framePayload(codecIn.bytes)
    ELSE codecOut.result.payload

\* C11: once a connection is CLOSED, no 'data' event of it calls onMessage.
C11_NoDeliveryAfterClosed ==
    [][\A c \in Conn :
        ws[c].state = "CLOSED" => delivered'[c] = delivered[c]]_vars

\* C12: a frame handed to the application carries exactly as many payload
\* bytes as its header declares, in each of the three length encodings; a
\* buffer shorter than that hands nothing over.
C12_PayloadHasDeclaredLength ==
    CodecDispatched => <<0, Len(CodecPayload)>> = DeclaredLength64(codecIn.bytes)

\* the codec call read the whole header of its buffer and went on to slice
\* the payload
CodecParsed ==
    \/ codecOut.op = "parseFrame" /\ codecOut.result.kind \notin {"return", "throw"}
    \/ codecOut.op = "parseWebSocketFrame" /\ codecOut.result.kind = "string"

\* C13: the payload length is the 7-bit field below 126, the next 2 bytes
\* big-endian for 126, all of the next 8 bytes big-endian for 127; the mask key
\* and the payload start right after the length bytes.
C13_LengthDecoding ==
    CodecParsed /\ codecOut.op = "parseFrame" =>
        LET buffer == codecIn.bytes
            len7 == buffer[2] % 128
            lengthBytes == IF len7 = 126 THEN 2 ELSE IF len7 = 127 THEN 8 ELSE 0
        IN /\ <<0, framePayloadLength(buffer)>> = DeclaredLength64(buffer)
           /\ frameLengthEnd(buffer) = 2 + lengthBytes
           /\ framePayloadOffset(buffer) =
                 2 + lengthBytes + (IF buffer[2] >= 128 THEN 4 ELSE 0)

\* a 64-bit length whose high four bytes are not zero
CodecHugeLength ==
    /\ codecIn.kind = "buffer"
    /\ Len(codecIn.bytes) >= 10
    /\ codecIn.bytes[2] % 128 = 127
    /\ SubSeq(codecIn.bytes, 3, 6) # <<0, 0, 0, 0>>

\* C14: a frame whose 64-bit length has non-zero high bytes is fatal: the
\* connection is closed and no payload is handed to the application.
C14_HugeLengthFatal ==
    CodecParsed /\ CodecHugeLength =>
        /\ codecOut.op = "parseFrame"
        /\ codecOut.result.kind = "close"

\* C15: the payload handed to the application is the wire payload with byte i
\* XORed with byte i mod 4 of the mask key; the decoded message, and the frame
\* that echoes it, are those of the client's text whatever the mask key is,
\* the all-zero key included.
C15_UnmaskAnyKey ==
    codecOut.op = "parseMasked" =>
        LET wirePayload ==
                SubSeq(CodecWire(codecIn),
                       Len(CodecWire(codecIn)) - Len(codecIn.bytes) + 1,
                       Len(CodecWire(codecIn)))
            plain == CodecWire([codecIn EXCEPT !.key = KeyZero])
        IN /\ Len(codecOut.result.payload) = Len(wirePayload)
           /\ \A i \in 1..Len(wirePayload) :
                codecOut.result.payload[i]
                    = Xor(wirePayload[i], codecIn.key[((i - 1) % 4) + 1])
           /\ codecOut.result.kind = "text"
           /\ codecOut.result.message = Utf8Decode(codecIn.bytes)
           /\ codecOut.result.message = parseFrame(plain).message
           /\ codecOut.result.echo =
                Append(OpenSocket.written,
                       FrameWrite(<<129, Len(codecIn.bytes)>> \o codecIn.bytes))

\* the masked "Hello" of RFC 6455 5.7 is unmasked
C15_Witness ==
    /\ codecOut.op = "parseMasked"
    /\ CodecWire(codecIn) = <<129, 133, 55, 250, 33, 61, 127, 159, 77, 81, 88>>
    /\ codecOut.result.message = Hello

\* the frame the claims expect for a payload: 0x81, the length in the form its
\* size calls for, the payload
ExpectedFrame(payload) ==
    LET n == Len(payload)
    IN (IF n < 126 THEN <<129, n>>
        ELSE IF n < 65536 THEN <<129, 126, n \div 256, n % 256>>
        ELSE <<129, 127, 0, 0, 0, 0>> \o Bytes32(n))
       \o payload

\* C16: send(data) on an OPEN connection makes exactly one socket write, of one
\* unmasked text frame: 0x81, the length as one byte below 126, as 126 and two
\* bytes below 65536, as 127 and eight bytes (the high four zero) otherwise,
\* then the UTF-8 bytes of data. sendWebSocketMessage writes the JSON text of
\* data in the same way.
C16_SendOneFrame ==
    /\ codecOut.op = "send" =>
        /\ codecOut.result.state = "OPEN"
        /\ codecOut.result.written =
             Append(OpenSocket.written,
                    FrameWrite(ExpectedFrame(Utf8Encode(codecIn.bytes))))
    /\ codecOut.op = "sendWebSocketMessage" =>
        codecOut.result =
            Append(OpenSocket.written,
                   FrameWrite(ExpectedFrame(Utf8Encode(JsonString(codecIn.bytes)))))

\* send("pong") wrote 81 04 70 6f 6e 67
C16_Witness ==
    /\ codecOut.op = "send"
    /\ codecIn.bytes = Pong
    /\ codecOut.result.written[Len(codecOut.result.written)]
         = FrameWrite(<<129, 4, 112, 111, 110, 103>>)

\* C17: a text whose payload has 0, 1, 125, 126, 65535 or 65536 bytes, sent by
\* send(), masked as a client would and given to parseFrame, is delivered to
\* onMessage as the original string.
C17_RoundTrip ==
    codecOut.op = "roundTrip" =>
        /\ codecOut.result.kind = "text"
        /\ codecOut.result.message = codecIn.bytes

\* the round trip of 65536 letters under a non-zero mask key
C17_Witness ==
    /\ codecOut.op = "roundTrip"
    /\ Len(Utf8Encode(codecIn.bytes)) = 65536
    /\ codecIn.key = KeySample
    /\ codecOut.result.message = codecIn.bytes

\* "258EAFA5-E914-47DA-95CA-C5AB0DC85B11" (RFC 6455 1.3)
Rfc6455Guid ==
    <<50, 53, 56, 69, 65, 70, 65, 53, 45, 69, 57, 49, 52, 45, 52, 55, 68, 65, 45, 57,
      53, 67, 65, 45, 67, 53, 65, 66, 48, 68, 67, 56, 53, 66, 49, 49>>

\* "s3pPLMBiTxaQ9kYGzzhZRbK+xOo=" and "HSmrc0sMlYUkAGmm5OPpG2HaGWk="
SampleAccept ==
    <<115, 51, 112, 80, 76, 77, 66, 105, 84, 120, 97, 81, 57, 107, 89, 71, 122, 122,
      104, 90, 82, 98, 75, 43, 120, 79, 111, 61>>
OtherAccept ==
    <<72, 83, 109, 114, 99, 48, 115, 77, 108, 89, 85, 107, 65, 71, 109, 109, 53, 79,
      80, 112, 71, 50, 72, 97, 71, 87, 107, 61>>

\* C18: the accept value is base64(SHA-1(key + GUID)); for the sample key it
\* is "s3pPLMBiTxaQ9kYGzzhZRbK+xOo="; the three handshake implementations
\* compute the same value for the same key.
C18_AcceptKey ==
    codecOut.op = "accept" =>
        /\ codecOut.result.code = Base64(Sha1(Utf8Encode(codecIn.bytes \o Rfc6455Guid)))
        /\ codecIn.bytes = SampleKey => codecOut.result.code = SampleAccept
        /\ codecIn.bytes = OtherKey => codecOut.result.code = OtherAccept
        /\ codecOut.result.unified = codecOut.result.code
        /\ codecOut.result.zero = codecOut.result.code

\* the sample key got its accept value
C18_Witness ==
    /\ codecOut.op = "accept"
    /\ codecIn.bytes = SampleKey
    /\ codecOut.result.code = SampleAccept
    /\ codecOut.result.unified = SampleAccept
    /\ codecOut.result.zero = SampleAccept

\* the lines of the 101 response: "HTTP/1.1 101 Switching Protocols",
\* "Upgrade: websocket", "Connection: Upgrade", "Sec-WebSocket-Accept: "
StatusLine ==
    <<72, 84, 84, 80, 47, 49, 46, 49, 32, 49, 48, 49, 32, 83, 119, 105, 116,
      99, 104, 105, 110, 103, 32, 80, 114, 111, 116, 111, 99, 111, 108, 115>>
UpgradeLine ==
    <<85, 112, 103, 114, 97, 100, 101, 58, 32, 119, 101, 98, 115, 111, 99,
      107, 101, 116>>
ConnectionLine ==
    <<67, 111, 110, 110, 101, 99, 116, 105, 111, 110, 58, 32, 85, 112, 103,
      114, 97, 100, 101>>
AcceptName ==
    <<83, 101, 99, 45, 87, 101, 98, 83, 111, 99, 107, 101, 116, 45, 65, 99,
      99, 101, 112, 116, 58, 32>>
CRLF == <<13, 10>>

\* "zwKd5BnoWxQ6GxTxxSmBSHGHX9M=": base64(SHA-1("abc" + GUID))
AbcAccept ==
    <<122, 119, 75, 100, 53, 66, 110, 111, 87, 120, 81, 54, 71, 120, 84, 120, 120,
      83, 109, 66, 83, 72, 71, 72, 88, 57, 77, 61>>

\* write is the 101 response for the Sec-WebSocket-Key header value key: the
\* status line, the three headers, an empty line, and nothing after it
IsResponse(write, key) ==
    LET fixed == StatusLine \o CRLF \o UpgradeLine \o CRLF \o ConnectionLine
                 \o CRLF \o AcceptName
        n == Len(write.bytes)
    IN /\ write.kind = "handshake"
       /\ n = Len(fixed) + 28 + 4
       /\ SubSeq(write.bytes, 1, Len(fixed)) = fixed
       /\ SubSeq(write.bytes, n - 3, n) = CRLF \o CRLF
       /\ key = JsString(SampleKey) =>
            SubSeq(write.bytes, Len(fixed) + 1, n - 4) = SampleAccept
       /\ key = JsString(<<97, 98, 99>>) =>
            SubSeq(write.bytes, Len(fixed) + 1, n - 4) = AbcAccept

\* C19: the first write to the socket of an upgraded connection is the 101
\* response (status line, Upgrade, Connection, Sec-WebSocket-Accept, empty
\* line, no body); the connection is OPEN only once it is written; before it
\* no frame is written and no byte of the socket is decoded.
C19_HandshakeFirst ==
    \A c \in Conn :
        /\ ws[c].written # <<>> => IsResponse(ws[c].written[1], request[c])
        /\ \A i \in 2..Len(ws[c].written) : ws[c].written[i].kind = "frame"
        /\ ws[c].state \in {"OPEN", "CLOSED"} => ws[c].written # <<>>
        /\ ws[c].written = <<>> => (Consumed(c) = 0 /\ delivered[c] = <<>>)

\* the response to the sample key, then a frame read and a frame written
C19_Witness ==
    \E c \in Conn :
        /\ request[c] = JsString(SampleKey)
        /\ Len(ws[c].written) = 2
        /\ IsResponse(ws[c].written[1], request[c])
        /\ ws[c].written[2] = FrameWrite(<<129, 4, 112, 111, 110, 103>>)
        /\ Len(delivered[c]) = 1

\* a Sec-WebSocket-Key as a client must send it: the base64 of 16 bytes
WellFormedKey(key) ==
    /\ key.type = "string"
    /\ Len(key.chars) = 24
    /\ key.chars[23] = 61 /\ key.chars[24] = 61
    /\ \A i \in 1..22 : \E n \in 0..63 : key.chars[i] = Base64Char(n)

\* C20: an upgrade request without a (well-formed) Sec-WebSocket-Key fails: no
\* 101 response is written, the connection is never OPEN, and it is not put
\* in the registry.
C20_BadKeyRejected ==
    \A c \in Conn :
        ~WellFormedKey(request[c]) =>
            /\ \A i \in 1..Len(ws[c].written) : ws[c].written[i].kind # "handshake"
            /\ ws[c].state # "OPEN"
            /\ c \notin registry

\* C21: a socket error on a connection is an implicit close: the step in which
\* the socket emits 'error' does not end the process and leaves every other
\* connection as it was, and once the socket has closed the connection is
\* CLOSED and out of wsConnections.
C21_SocketErrorIsClose ==
    [][\A c \in Conn :
          (~sockErrored[c] /\ sockErrored'[c]) =>
              /\ ~crashed'
              /\ \A d \in Conn \ {c} : ws'[d] = ws[d]
              /\ sockClosed'[c] => (ws'[c].state = "CLOSED" /\ c \notin registry')]_vars

\* the step is an event on connection a: bytes of its stream were delivered,
\* its socket closed, or its protocol state or writes changed
EventOn(a) ==
    /\ sockErrored' = sockErrored
    /\ \/ wire'[a] # wire[a]
       \/ sockClosed'[a] # sockClosed[a]
       \/ ws'[a] # ws[a]

\* C22: connections are isolated: an event on connection a (data chunk,
\* malformed or truncated frame, close frame, local close, socket close)
\* leaves the protocol state, the pending bytes and the socket of every other
\* connection b as they were, writes nothing to b's socket, delivers nothing
\* to b's handler, and leaves b served by a running process.
C22_Isolation ==
    [][\A a \in Conn : \A b \in Conn \ {a} :
          (EventOn(a) /\ ~EventOn(b) /\ Listening(b)) =>
              /\ ws'[b] = ws[b]
              /\ wire'[b] = wire[b]
              /\ delivered'[b] = delivered[b]
              /\ sockClosed'[b] = sockClosed[b]
              /\ ~crashed']_vars

\* the entries of wsConnections whose list holds c
EntriesOf(c) ==
    {id \in DOMAIN wsConnections : Occurrences(wsConnections[id], c) > 0}

\* C23: wsConnections is updated add-on-open / remove-on-close: a connection
\* upgraded on /ws/terminal/<id> whose socket has not closed is exactly once
\* in wsConnections[id]; after its socket's 'close' event it is in no list;
\* and no connection is ever in more than one entry.
C23_Registry ==
    \A c \in Conn :
        /\ (Listening(c) /\ ~sockClosed[c]) =>
               Occurrences(Connections(wsConnections, terminalId(c)), c) = 1
        /\ sockClosed[c] => EntriesOf(c) = {}
        /\ ws[c].state = "NONE" => EntriesOf(c) = {}
        /\ Cardinality(EntriesOf(c)) <= 1

\* C23 witness: two connections were upgraded on the same terminal id, the
\* socket of the later one has closed and the earlier one is still listed.
C23_Witness ==
    \E c, d \in Conn :
        /\ c # d /\ terminalId(c) = terminalId(d)
        /\ Listening(c) /\ ~sockClosed[c] /\ sockClosed[d]
        /\ Connections(wsConnections, terminalId(c)) = <<c>>
        /\ c < d

\* C26: on each socket the close frame is the last write: once 0x88 0x00 has
\* been written, no step (send, broadcast, repeated close, in any order)
\* writes anything more to that socket, so the close frame stays the last
\* write.
C26_CloseFrameLast ==
    [][\A c \in Conn :
          /\ CloseFrameWritten(ws[c]) => ws'[c].written = ws[c].written
          /\ CloseFrameWritten(ws'[c]) =>
                 ws'[c].written[Len(ws'[c].written)] = FrameWrite(closeFrame)]_vars

\* C26 witness: after the close frame was written, send(), a broadcast and a
\* second close() were all called on the connection, and the close frame is
\* still its last write.
C26_Witness ==
    \E c \in Conn :
        /\ late[c] = {"send", "broadcast", "close"}
        /\ ws[c].written[Len(ws[c].written)] = FrameWrite(closeFrame)
        /\ ~sockClosed[c]

\* the step is a Terminal.broadcast call
BroadcastStep == Len(broadcasts') = Len(broadcasts) + 1

\* the terminal id and the frame of the broadcast of a BroadcastStep
BroadcastId == broadcasts'[Len(broadcasts')]
BroadcastFrame(data) == FrameWrite(ExpectedFrame(Utf8Encode(JsonOutput(data))))

\* C27: Terminal.broadcast(message) of terminal T writes exactly one text
\* frame, holding JSON.stringify(message), to each connection registered
\* under T that is OPEN, writes nothing to the connections registered under
\* another id and to those that are CLOSED, changes no connection's state, and
\* changes nothing at all when no connection is registered under T.
C27_Broadcast ==
    [][BroadcastStep =>
          /\ \A c \in Conn :
                /\ ws'[c].state = ws[c].state
                /\ ws'[c].written =
                       IF /\ Occurrences(Connections(wsConnections, JsNumber(BroadcastId)), c) = 1
                          /\ ws[c].state = "OPEN"
                       THEN Append(ws[c].written,
                                   CHOOSE f \in {BroadcastFrame(data) : data \in BroadcastData} : TRUE)
                       ELSE ws[c].written
          /\ wsConnections' = wsConnections
          /\ (Connections(wsConnections, JsNumber(BroadcastId)) = <<>>) => ws' = ws]_vars

\* C27 witness: a broadcast of terminal T was made while one connection
\* registered under T was OPEN and another one, also registered under T, was
\* CLOSED: the first got the text frame as its last write, the other nothing
\* after its close frame.
C27_Witness ==
    \E c, d \in Conn : \E data \in BroadcastData :
        /\ c # d
        /\ Len(broadcasts) = 1
        /\ terminalId(c) = JsNumber(broadcasts[1])
        /\ terminalId(d) = JsNumber(broadcasts[1])
        /\ Connections(wsConnections, JsNumber(broadcasts[1])) = <<c, d>>
        /\ ws[c].state = "OPEN" /\ sendCalls[c] = 1
        /\ ws[c].written[Len(ws[c].written)] = BroadcastFrame(data)
        /\ ws[d].state = "CLOSED" /\ "broadcast" \in late[d]
        /\ ws[d].written[Len(ws[d].written)] = FrameWrite(closeFrame)

\* C27 witness, no-op case: a broadcast was made for a terminal under which no
\* connection is registered, while a connection is OPEN under another id.
C27_WitnessNoOp ==
    \E c \in Conn :
        /\ Len(broadcasts) = 1
        /\ Connections(wsConnections, JsNumber(broadcasts[1])) = <<>>
        /\ ws[c].state = "OPEN" /\ c \in registry
        /\ Len(ws[c].written) = 1

\* ------------------------------------------------ the unified server
\* keti-unified.js: handleWebSocket starts one async handler for each 'data'
\* event; a handler awaits executeCommand or the AI system and then writes
\* its reply with sendWebSocketMessage.

\* what the parsed message of a 'data' event is: a terminal command, a chat
\* message, a message of a type handleWebSocketMessage has no case for, and a
\* payload JSON.parse throws on
MessageTypes == {"terminal", "chat", "ping", "invalid"}

\* the handshake response handleWebSocket writes for the sample key, whose
\* accept value generateAcceptKeyUnified computes as "s3pPLMBiTxaQ9kYGzzhZRbK+xOo="
UnifiedHandshake ==
    HandshakeResponse(
        <<115, 51, 112, 80, 76, 77, 66, 105, 84, 120, 97, 81, 57, 107, 89, 71, 122,
          122, 104, 90, 82, 98, 75, 43, 120, 79, 111, 61>>)

\* a promise nobody settled yet
pendingPromise == [state |-> "pending", value |-> <<>>]

\* resolve(value) of a promise that keeps the value of the last call
resolveOverwrite(promise, value) == [state |-> "resolved", value |-> value]

\* resolve(value): a promise is settled once, later calls do nothing
resolve(promise, value) ==
    IF promise.state # "pending" THEN promise
    ELSE [state |-> "resolved", value |-> value]

\* the awaited async function throws
reject(promise) ==
    IF promise.state # "pending" THEN promise
    ELSE [state |-> "rejected", value |-> <<>>]

\* output || text, output being the chunks collected so far
orDefault(output, text) == IF output = <<>> THEN <<text>> ELSE output

\* the handler started by a 'data' event on socket c whose message has the
\* given type: executeCommand spawns the child (spawn is taken to succeed)
\* and sets the timer, an AI call is awaited, or there is nothing to await
startHandler(c, type) ==
    [socket |-> c,
     type |-> type,
     child |-> IF type = "terminal" THEN "running" ELSE "none",
     timer |-> IF type = "terminal" THEN "pending" ELSE "none",
     output |-> <<>>,
     promise |-> pendingPromise,
     step |-> IF type \in {"terminal", "chat"} THEN "awaiting" ELSE "done"]

\* the socket.write of sendWebSocketMessage(socket, { type, ... }) made by
\* handler i with the awaited value
replyWrite(i, h, closed) ==
    [kind |-> "frame",
     message |-> [type |-> h.type, value |-> h.promise.value],
     handler |-> i,
     afterClose |-> closed]

\* handleWebSocket(request, socket): the handshake is written and the socket
\* is added to this.websockets. The sockets are numbered in the order of
\* their upgrades.
HandleWebSocket(c) ==
    /\ ~usockets[c].open
    /\ \A d \in Conn : d < c => usockets[d].open
    /\ usockets' = [usockets EXCEPT ![c] =
           [open |-> TRUE, closed |-> FALSE, written |-> <<UnifiedHandshake>>]]
    /\ websockets' = websockets \cup {c}
    /\ UNCHANGED handlers
    /\ UNCHANGED engineVars
    /\ UNCHANGED authVars
    /\ UNCHANGED hubVars
    /\ UNCHANGED codecVars
    /\ UNCHANGED authVars

\* the 'data' listener of socket c: the frame is parsed and, unless
\* JSON.parse throws, handleWebSocketMessage is started and runs up to its
\* first await
UnifiedData(c, type) ==
    /\ usockets[c].open
    /\ ~usockets[c].closed
    /\ Len(handlers) < MaxMessages
    /\ handlers' = Append(handlers, startHandler(c, type))
    /\ UNCHANGED <<websockets, usockets>>
    /\ UNCHANGED engineVars
    /\ UNCHANGED authVars
    /\ UNCHANGED hubVars
    /\ UNCHANGED codecVars
    /\ UNCHANGED authVars

\* child.stdout / child.stderr 'data' of the command of handler i
ChildOutput(i) ==
    /\ i \in 1..Len(handlers)
    /\ handlers[i].child \in {"running", "killed"}
    /\ Len(handlers[i].output) < MaxOutput
    /\ handlers' = [handlers EXCEPT ![i].output = Append(@, "ok")]
    /\ UNCHANGED <<websockets, usockets>>
    /\ UNCHANGED engineVars
    /\ UNCHANGED authVars
    /\ UNCHANGED hubVars
    /\ UNCHANGED codecVars
    /\ UNCHANGED authVars

\* child 'close' of the command of handler i
ChildClose(i) ==
    /\ i \in 1..Len(handlers)
    /\ handlers[i].child \in {"running", "killed"}
    /\ handlers' = [handlers EXCEPT
           ![i].child = "closed",
           ![i].promise = resolve(@, orDefault(handlers[i].output, "Command completed"))]
    /\ UNCHANGED <<websockets, usockets>>
    /\ UNCHANGED engineVars
    /\ UNCHANGED authVars
    /\ UNCHANGED hubVars
    /\ UNCHANGED codecVars
    /\ UNCHANGED authVars

\* the 10-second timer of the command of handler i fires: child.kill(), then
\* resolve
TimerFires(i) ==
    /\ i \in 1..Len(handlers)
    /\ handlers[i].timer = "pending"
    /\ handlers' = [handlers EXCEPT
           ![i].timer = "fired",
           ![i].child = IF @ = "running" THEN "killed" ELSE @,
           ![i].promise = resolve(@, orDefault(handlers[i].output, "Command timed out"))]
    /\ UNCHANGED <<websockets, usockets>>
    /\ UNCHANGED engineVars
    /\ UNCHANGED authVars
    /\ UNCHANGED hubVars
    /\ UNCHANGED codecVars
    /\ UNCHANGED authVars

\* the AI call handler i awaits returns a completion, or throws
AiSettles(i, ok) ==
    /\ i \in 1..Len(handlers)
    /\ handlers[i].type = "chat"
    /\ handlers[i].promise.state = "pending"
    /\ handlers' = [handlers EXCEPT ![i].promise =
           IF ok THEN resolve(@, <<"completion">>) ELSE reject(@)]
    /\ UNCHANGED <<websockets, usockets>>
    /\ UNCHANGED engineVars
    /\ UNCHANGED authVars
    /\ UNCHANGED hubVars
    /\ UNCHANGED codecVars
    /\ UNCHANGED authVars

\* handler i goes on after its await: sendWebSocketMessage(socket, reply),
\* whatever became of the socket meanwhile; a rejection is caught and logged
\* by the 'data' listener
Continue(i) ==
    /\ i \in 1..Len(handlers)
    /\ handlers[i].step = "awaiting"
    /\ handlers[i].promise.state # "pending"
    /\ handlers' = [handlers EXCEPT ![i].step = "done"]
    /\ usockets' =
           IF handlers[i].promise.state = "rejected" THEN usockets
           ELSE [usockets EXCEPT ![handlers[i].socket].written =
                    Append(@, replyWrite(i, handlers[i],
                                         usockets[handlers[i].socket].closed))]
    /\ UNCHANGED websockets
    /\ UNCHANGED engineVars
    /\ UNCHANGED authVars
    /\ UNCHANGED hubVars
    /\ UNCHANGED codecVars
    /\ UNCHANGED authVars

\* the 'close' listener of socket c: this.websockets.delete(socket)
UnifiedClose(c) ==
    /\ usockets[c].open
    /\ ~usockets[c].closed
    /\ usockets' = [usockets EXCEPT ![c].closed = TRUE]
    /\ websockets' = websockets \ {c}
    /\ UNCHANGED handlers
    /\ UNCHANGED engineVars
    /\ UNCHANGED authVars
    /\ UNCHANGED hubVars
    /\ UNCHANGED codecVars
    /\ UNCHANGED authVars

\* the unified server and the auth server after their construction: no
\* socket upgraded, no request received
InitServers == InitHub /\ sent = [c \in Conn |-> <<>>]

NextUnified ==
    \/ \E c \in Conn :
          \/ HandleWebSocket(c)
          \/ \E type \in MessageTypes : UnifiedData(c, type)
          \/ UnifiedClose(c)
    \/ \E i \in 1..MaxMessages :
          \/ ChildOutput(i)
          \/ ChildClose(i)
          \/ TimerFires(i)
          \/ \E ok \in BOOLEAN : AiSettles(i, ok)
          \/ Continue(i)

SpecUnified == InitServers /\ [][NextUnified]_vars

\* the event loop runs every timer that is due, and every continuation of a
\* settled promise
SpecUnifiedFair ==
    /\ SpecUnified
    /\ \A i \in 1..MaxMessages : WF_vars(TimerFires(i)) /\ WF_vars(Continue(i))

\* the positions of the reply frames among the writes made on socket c
Replies(c) ==
    {k \in 1..Len(usockets[c].written) : usockets[c].written[k].kind = "frame"}

\* C24: in the unified server the responses on one socket are written in the
\* order in which the messages that caused them arrived.
C24_ResponsesInArrivalOrder ==
    \A c \in Conn : \A j, k \in Replies(c) :
        j < k => usockets[c].written[j].handler < usockets[c].written[k].handler

\* C25: in the unified server no frame is written to a socket after that
\* socket's 'close' event, also when the socket closes while a handler is
\* still awaiting its command or AI result.
C25_NoWriteAfterClose ==
    [][\A c \in Conn :
          usockets[c].closed => usockets'[c].written = usockets[c].written]_vars

\* handler i runs executeCommand
Executing(i) == i \in 1..Len(handlers) /\ handlers[i].type = "terminal"

StateMaxAge == 300000

\* the life, in ms, of a device authorization
DeviceLife == 600000

\* the keys of OAUTH_CONFIG the clients ask for, and a provider that is none
ConfigProviders == {"anthropic", "openai"}
RequestProviders == {"anthropic", "openai", "other"}

\* null, as the result of validateState and verifyUserCode
null == "null"

\* the amounts of time that pass between two calls
Ticks == {1, StateMaxAge}

\* validateState(state) that keeps the token it accepted
validateStateKeep(map, state, time) ==
    IF state \notin DOMAIN map THEN [result |-> null, map |-> map]
    ELSE IF time - map[state].timestamp > StateMaxAge
         THEN [result |-> null, map |-> [t \in DOMAIN map \ {state} |-> map[t]]]
         ELSE [result |-> map[state].provider, map |-> map]

\* validateState(state) at the given time: its return value, and this.state
\* after it
validateState(map, state, time) ==
    IF state \notin DOMAIN map THEN [result |-> null, map |-> map]
    ELSE IF time - map[state].timestamp > StateMaxAge
         THEN [result |-> null, map |-> [t \in DOMAIN map \ {state} |-> map[t]]]
         ELSE [result |-> map[state].provider,
               map |-> [t \in DOMAIN map \ {state} |-> map[t]]]

\* the number of the call being made
ThisCall == lastCall.n + 1

\* GET /auth/login?provider=: getAuthorizationURL(provider) throws for an
\* unknown provider (400); otherwise a new state token is set and the client
\* is redirected (302)
Login(provider) ==
    /\ ThisCall <= MaxCalls
    /\ provider \in ConfigProviders => Len(issued) < MaxIssued
    /\ IF provider \notin ConfigProviders
       THEN /\ lastCall' = [n |-> ThisCall, op |-> "login", status |-> 400]
            /\ UNCHANGED <<stateMap, issued>>
       ELSE LET entry == [provider |-> provider, timestamp |-> now]
            IN /\ stateMap' = stateMap @@ ((Len(issued) + 1) :> entry)
               /\ issued' = Append(issued, entry)
               /\ lastCall' = [n |-> ThisCall, op |-> "login", status |-> 302]
    /\ UNCHANGED <<validated, accepted>>
    /\ UNCHANGED clockVars
    /\ UNCHANGED deviceVars
    /\ UNCHANGED engineVars
    /\ UNCHANGED hubVars
    /\ UNCHANGED uniVars
    /\ UNCHANGED codecVars

\* GET /auth/callback/<provider>?state=: validateState(state), then 400
\* unless it returned the provider of the path; otherwise the code is
\* exchanged for tokens
Callback(provider, state) ==
    /\ ThisCall <= MaxCalls
    /\ state \in 0..Len(issued)
    /\ LET r == validateState(stateMap, state, now)
       IN /\ stateMap' = r.map
          /\ accepted' = IF r.result # null THEN accepted \cup {state} ELSE accepted
          /\ lastCall' = [n |-> ThisCall, op |-> "callback",
                          provider |-> provider, state |-> state,
                          valid |-> r.result,
                          status |-> IF r.result = null \/ r.result # provider
                                     THEN 400 ELSE 302]
    /\ validated' = validated \cup {state}
    /\ UNCHANGED issued
    /\ UNCHANGED clockVars
    /\ UNCHANGED deviceVars
    /\ UNCHANGED engineVars
    /\ UNCHANGED hubVars
    /\ UNCHANGED uniVars
    /\ UNCHANGED codecVars

\* time passes
Tick(d) ==
    /\ ticks < MaxTicks
    /\ ticks' = ticks + 1
    /\ now' = now + d
    /\ UNCHANGED lastCall
    /\ UNCHANGED oauthVars
    /\ UNCHANGED deviceVars
    /\ UNCHANGED engineVars
    /\ UNCHANGED hubVars
    /\ UNCHANGED uniVars
    /\ UNCHANGED codecVars

NextOAuth ==
    \/ \E provider \in RequestProviders : Login(provider)
    \/ \E provider \in ConfigProviders : \E state \in 0..MaxIssued :
          Callback(provider, state)
    \/ \E d \in Ticks : Tick(d)

SpecOAuth == InitServers /\ [][NextOAuth]_vars

\* the step is a call of the callback endpoint
CallbackStep == lastCall'.n # lastCall.n /\ lastCall'.op = "callback"

\* C28: a state token is single-use: validateState(s) returns the provider
\* only for a token getAuthorizationURL issued, not older than 5 minutes and
\* not validated before; a call on a known token removes it; the callback
\* answers 400 when validateState returned null (so for a second call with
\* the same token) and when the provider it returned is not the one of the
\* callback path.
C28_StateSingleUse ==
    [][CallbackStep =>
          LET s == lastCall'.state
              fresh == /\ s \in 1..Len(issued)
                       /\ now - issued[s].timestamp <= StateMaxAge
                       /\ s \notin validated
          IN /\ lastCall'.valid = IF fresh THEN issued[s].provider ELSE null
             /\ s \notin DOMAIN stateMap'
             /\ s \in validated => lastCall'.valid = null /\ lastCall'.status = 400
             /\ (lastCall'.status = 400) <=>
                    (~fresh \/ issued[s].provider # lastCall'.provider)]_vars

\* C28 witness: a token that was accepted once, and is still younger than 5
\* minutes, was presented again: validateState returned null and the
\* callback answered 400.
C28_Witness ==
    /\ lastCall.op = "callback"
    /\ lastCall.state \in accepted
    /\ now - issued[lastCall.state].timestamp <= StateMaxAge
    /\ lastCall.valid = null
    /\ lastCall.status = 400
    /\ lastCall.state \notin DOMAIN stateMap

\* C28 witness, provider mismatch: a fresh token issued for one provider was
\* presented on the callback path of another one and answered with 400.
C28_WitnessMismatch ==
    /\ lastCall.op = "callback"
    /\ lastCall.valid \in ConfigProviders
    /\ lastCall.valid # lastCall.provider
    /\ lastCall.status = 400

\* the tokens and the user id completeAuthorization is called with
TokenSets == {"tokens-a", "tokens-b"}

\* pendingAuthorizations.delete(userCode)
deleteAuthorization(map, userCode) == [u \in DOMAIN map \ {userCode} |-> map[u]]

\* POST /auth/device: initiateDeviceFlow(provider) sets the authorization
\* of a new user code and device code
InitiateDeviceFlow(provider) ==
    /\ ThisCall <= MaxCalls
    /\ Len(flows) < MaxIssued
    /\ LET n == Len(flows) + 1
           auth == [deviceCode |-> n, provider |-> provider, userCode |-> n,
                    expiresAt |-> now + DeviceLife, status |-> "pending",
                    tokens |-> null]
       IN /\ pendingAuthorizations' = pendingAuthorizations @@ (n :> auth)
          /\ flows' = Append(flows, auth)
          /\ lastCall' = [n |-> ThisCall, op |-> "initiate", deviceCode |-> n]
    /\ UNCHANGED <<granted, succeeded, expiredReported>>
    /\ UNCHANGED clockVars
    /\ UNCHANGED oauthVars
    /\ UNCHANGED engineVars
    /\ UNCHANGED hubVars
    /\ UNCHANGED uniVars
    /\ UNCHANGED codecVars

\* verifyUserCode(userCode): null for an unknown code; an expired
\* authorization is deleted and null returned; otherwise the authorization
VerifyUserCode(userCode) ==
    /\ ThisCall <= MaxCalls
    /\ userCode \in 0..Len(flows)
    /\ IF userCode \notin DOMAIN pendingAuthorizations
       THEN /\ lastCall' = [n |-> ThisCall, op |-> "verify", found |-> FALSE]
            /\ UNCHANGED pendingAuthorizations
       ELSE IF now > pendingAuthorizations[userCode].expiresAt
            THEN /\ pendingAuthorizations' =
                        deleteAuthorization(pendingAuthorizations, userCode)
                 /\ lastCall' = [n |-> ThisCall, op |-> "verify", found |-> FALSE]
            ELSE /\ lastCall' = [n |-> ThisCall, op |-> "verify", found |-> TRUE]
                 /\ UNCHANGED pendingAuthorizations
    /\ UNCHANGED <<flows, granted, succeeded, expiredReported>>
    /\ UNCHANGED clockVars
    /\ UNCHANGED oauthVars
    /\ UNCHANGED engineVars
    /\ UNCHANGED hubVars
    /\ UNCHANGED uniVars
    /\ UNCHANGED codecVars

\* completeAuthorization(userCode, userId, tokens): false for an unknown
\* code; otherwise the authorization is completed with the tokens
CompleteAuthorization(userCode, tokens) ==
    /\ ThisCall <= MaxCalls
    /\ userCode \in 0..Len(flows)
    /\ IF userCode \notin DOMAIN pendingAuthorizations
       THEN /\ lastCall' = [n |-> ThisCall, op |-> "complete", result |-> FALSE]
            /\ UNCHANGED <<pendingAuthorizations, granted>>
       ELSE /\ pendingAuthorizations' =
                   [pendingAuthorizations EXCEPT ![userCode].status = "completed",
                                                 ![userCode].tokens = tokens]
            /\ granted' = [n \in DOMAIN granted \cup {userCode} |->
                              IF n = userCode THEN tokens ELSE granted[n]]
            /\ lastCall' = [n |-> ThisCall, op |-> "complete", result |-> TRUE]
    /\ UNCHANGED <<flows, succeeded, expiredReported>>
    /\ UNCHANGED clockVars
    /\ UNCHANGED oauthVars
    /\ UNCHANGED engineVars
    /\ UNCHANGED hubVars
    /\ UNCHANGED uniVars
    /\ UNCHANGED codecVars

\* the user codes whose authorization has the device code
Matching(map, deviceCode) == {u \in DOMAIN map : map[u].deviceCode = deviceCode}

\* checkDeviceCode(deviceCode) at the given time: its return value, and
\* pendingAuthorizations after it
checkDeviceCode(map, deviceCode, time) ==
    IF Matching(map, deviceCode) = {}
    THEN [result |-> [error |-> "not_found"], map |-> map]
    ELSE LET userCode == CHOOSE u \in Matching(map, deviceCode) : TRUE
             auth == map[userCode]
         IN IF auth.status = "completed"
            THEN [result |-> [success |-> TRUE, tokens |-> auth.tokens],
                  map |-> deleteAuthorization(map, userCode)]
            ELSE IF time > auth.expiresAt
                 THEN [result |-> [error |-> "expired"],
                       map |-> deleteAuthorization(map, userCode)]
                 ELSE [result |-> [error |-> "pending"], map |-> map]

\* GET /auth/device/token?device_code=: checkDeviceCode(deviceCode)
CheckDeviceCode(deviceCode) ==
    /\ ThisCall <= MaxCalls
    /\ deviceCode \in 0..Len(flows)
    /\ LET r == checkDeviceCode(pendingAuthorizations, deviceCode, now)
       IN /\ pendingAuthorizations' = r.map
          /\ lastCall' = [n |-> ThisCall, op |-> "check",
                          deviceCode |-> deviceCode, result |-> r.result]
          /\ succeeded' = IF "success" \in DOMAIN r.result
                          THEN succeeded \cup {deviceCode} ELSE succeeded
          /\ expiredReported' = IF r.result = [error |-> "expired"]
                                THEN expiredReported \cup {deviceCode}
                                ELSE expiredReported
    /\ UNCHANGED <<flows, granted>>
    /\ UNCHANGED clockVars
    /\ UNCHANGED oauthVars
    /\ UNCHANGED engineVars
    /\ UNCHANGED hubVars
    /\ UNCHANGED uniVars
    /\ UNCHANGED codecVars

NextDevice ==
    \/ \E provider \in ConfigProviders : InitiateDeviceFlow(provider)
    \/ \E userCode \in 0..MaxIssued :
          \/ VerifyUserCode(userCode)
          \/ \E tokens \in TokenSets : CompleteAuthorization(userCode, tokens)
          \/ CheckDeviceCode(userCode)
    \/ \E d \in Ticks : Tick(d)

SpecDevice == InitServers /\ [][NextDevice]_vars

\* the step is a checkDeviceCode call
CheckStep == lastCall'.n # lastCall.n /\ lastCall'.op = "check"

\* C29: for every device code issued, checkDeviceCode returns 'pending' while
\* completeAuthorization has not been called for its user code and the
\* authorization has not expired; it returns success at most once, with the
\* tokens completeAuthorization was given, and deletes the entry, and
\* 'not_found' on every later call; for an authorization that expired while
\* pending it reports 'expired' (once) and deletes the entry; and it never
\* returns success for a device code whose authorization was not completed.
C29_DeviceFlow ==
    [][CheckStep =>
          LET d == lastCall'.deviceCode
              result == lastCall'.result
              completed == d \in DOMAIN granted
              expired == now > flows[d].expiresAt
          IN d \in 1..Len(flows) =>
                /\ (~completed /\ ~expired) => result = [error |-> "pending"]
                /\ d \in succeeded => result = [error |-> "not_found"]
                /\ (~completed /\ expired /\ d \notin expiredReported) =>
                       /\ result = [error |-> "expired"]
                       /\ d \notin DOMAIN pendingAuthorizations'
                /\ ~completed => result \in {[error |-> "pending"],
                                             [error |-> "expired"],
                                             [error |-> "not_found"]}
                /\ d \in succeeded' \ succeeded =>
                       /\ completed
                       /\ result = [success |-> TRUE, tokens |-> granted[d]]
                       /\ d \notin DOMAIN pendingAuthorizations']_vars

====
